---- MODULE Spec2Model ----
(***************************************************************************)
(* A model of zapdb's storage engine (src/src/lib.rs): the table map, the  *)
(* write-ahead log, constraint checking, index and Merkle maintenance,     *)
(* transactions with rollback, and recovery of a fresh Database by WAL     *)
(* replay.                                                                 *)
(*                                                                         *)
(* Conventions.                                                            *)
(*  - A Value is a record [t, v]: t is the variant name, v a natural that  *)
(*    stands for the payload.  For Float, v counts steps of half a machine *)
(*    epsilon, so that two floats one step apart are different bit         *)
(*    patterns that PartialEq calls equal.                                 *)
(*  - A row (HashMap<String, Value>) is a function from the set of column  *)
(*    names it has an entry for to Values.                                 *)
(*  - Row positions are 1-based here (position i of the model is index     *)
(*    i-1 of the Vec).                                                     *)
(*  - An index (DashMap<Value, Vec<usize>>) is a function from the keys it *)
(*    holds to position lists.  A key is found by hash, then by eq; the    *)
(*    hasher is taken to be collision free on the values of the model.     *)
(*  - An update function (fn(&mut HashMap)) is one of a few named          *)
(*    mutators: set a column to a value, or remove a column.               *)
(*  - The snapshot file is the encoded table map together with the key it  *)
(*    was sealed with; gzip and AES-256-GCM are taken to invert exactly    *)
(*    under the same key and to fail under another.                        *)
(***************************************************************************)
EXTENDS Integers, Sequences, FiniteSets, TLC

VARIABLES tables, wal, fresh, last, snapshot, tasks, wal_lock, tables_lock, trace

\* the state of the callers that run concurrently, and of the two locks
conc == <<tasks, wal_lock, tables_lock, trace>>

vars == <<tables, wal, fresh, last, snapshot, conc>>

(***************************************************************************)
(* Bounds of the model.                                                    *)
(***************************************************************************)
MaxWal == 4
MaxRows == 2
MaxErrors == 1

(***************************************************************************)
(* Values: enum Value, PartialEq, PartialOrd, Hash.                        *)
(***************************************************************************)
FloatEpsilon == 2

IntV(n) == [t |-> "Integer", v |-> n]
FloatV(n) == [t |-> "Float", v |-> n]
NullV == [t |-> "Null", v |-> 0]

\* Value::Float(f64::NAN)
NaN == [t |-> "Float", v |-> 0, nan |-> TRUE]

IsNaN(a) == "nan" \in DOMAIN a

Abs(n) == IF n < 0 THEN 0 - n ELSE n

\* impl PartialEq for Value
ValueEq(a, b) ==
    IF a.t # b.t THEN FALSE
    ELSE IF IsNaN(a) \/ IsNaN(b) THEN FALSE
    ELSE IF a.t = "Float" THEN Abs(a.v - b.v) < FloatEpsilon
    ELSE IF a.t = "Null" THEN TRUE
    ELSE a.v = b.v

\* impl PartialOrd for Value: "Less", "Equal", "Greater" or "None"
partial_cmp(a, b) ==
    IF a.t # b.t \/ a.t \in {"Null", "Json"} THEN "None"
    ELSE IF IsNaN(a) \/ IsNaN(b) THEN "None"
    ELSE IF a.v < b.v THEN "Less"
    ELSE IF a.v > b.v THEN "Greater"
    ELSE "Equal"

\* impl Hash for Value: the payload (for Float its bit pattern), 0 for Null
ValueHash(a) ==
    IF a.t = "Null" THEN <<"Null", 0>>
    ELSE IF IsNaN(a) THEN <<"NaN", 0>>
    ELSE <<a.t, a.v>>

\* Option<&Value> == Some(val), as in r.get(col) == Some(val)
GetEq(row, col, val) == col \in DOMAIN row /\ ValueEq(row[col], val)

(***************************************************************************)
(* Schema: enum Constraint, enum DataType, struct Column.                  *)
(***************************************************************************)
NotNull == [kind |-> "NotNull", table |-> "", column |-> ""]
Unique == [kind |-> "Unique", table |-> "", column |-> ""]
ForeignKey(t, c) == [kind |-> "ForeignKey", table |-> t, column |-> c]

Column(n, ty, cs) == [name |-> n, data_type |-> ty, constraints |-> cs]

Range(s) == {s[i] : i \in 1..Len(s)}

EmptyRow == [c \in {} |-> NullV]

(***************************************************************************)
(* Merkle tree: the cached tree is the list of leaves it was built from;   *)
(* a leaf is the hash of the row's serialization, the entries of the row   *)
(* as (name, value) pairs.  Hash and tree are taken to be collision free.  *)
(***************************************************************************)
ColOrder == <<"id", "score", "uid">>

Serialize(row) ==
    LET present == SelectSeq(ColOrder, LAMBDA c : c \in DOMAIN row)
    IN [i \in 1..Len(present) |-> <<present[i], row[present[i]]>>]

\* the orders in which a HashMap holding the row's entries can iterate: the
\* order follows the hashes of the keys under the map's own RandomState
IterationOrders(row) ==
    {order \in [1..Cardinality(DOMAIN row) -> DOMAIN row] :
        Range(order) = DOMAIN row}

\* bincode::serialize(&row) of a HashMap that iterates in the given order:
\* the entries are written as the map yields them
SerializeIn(row, order) ==
    [i \in 1..Len(order) |-> <<order[i], row[order[i]]>>]

Leaves(data) == [i \in 1..Len(data) |-> Serialize(data[i])]

NoTree == [some |-> FALSE, leaves |-> <<>>]

\* Table::build_merkle_tree
build_merkle_tree(table) ==
    [table EXCEPT !.merkle_tree = [some |-> TRUE, leaves |-> Leaves(table.data)]]

\* Table::verify_integrity
TableVerifyIntegrity(table) ==
    IF table.merkle_tree.some
    THEN table.merkle_tree.leaves = Leaves(table.data)
    ELSE TRUE

\* Database::verify_integrity
verify_integrity(tbls) == \A n \in DOMAIN tbls : TableVerifyIntegrity(tbls[n])

(***************************************************************************)
(* Indexes: DashMap<Value, Vec<usize>>.                                    *)
(***************************************************************************)
\* the key of the index that a lookup of val finds: same hash, then eq
FindKey(index, val) ==
    {k \in DOMAIN index : ValueHash(k) = ValueHash(val) /\ ValueEq(k, val)}

\* index.entry(value).or_insert_with(Vec::new).push(pos)
IndexPush(index, val, pos) ==
    IF FindKey(index, val) # {}
    THEN LET k == CHOOSE k \in FindKey(index, val) : TRUE
         IN [index EXCEPT ![k] = Append(@, pos)]
    ELSE [k \in DOMAIN index \cup {val} |->
             IF k = val THEN <<pos>> ELSE index[k]]

\* index.get(&value): the position list under the key, empty when absent
IndexGet(index, val) ==
    IF FindKey(index, val) # {}
    THEN index[CHOOSE k \in FindKey(index, val) : TRUE]
    ELSE <<>>

EmptyIndex == [k \in {} |-> <<>>]

RECURSIVE BuildIndexFrom(_, _, _, _)
BuildIndexFrom(data, col, i, index) ==
    IF i > Len(data) THEN index
    ELSE BuildIndexFrom(data, col, i + 1,
            IF col \in DOMAIN data[i]
            THEN IndexPush(index, data[i][col], i)
            ELSE index)

\* index.clear() followed by the loop over table.data that refills it
BuildIndex(data, col) == BuildIndexFrom(data, col, 1, EmptyIndex)

\* the rebuild of every index of a table (update_internal, delete_internal)
RebuildIndexes(table) ==
    [table EXCEPT !.indexes =
        [c \in DOMAIN table.indexes |-> BuildIndex(table.data, c)]]

(***************************************************************************)
(* Queries: enum Query, struct Condition, enum Operator.                   *)
(***************************************************************************)
MatchAll ==
    [kind |-> "MatchAll", column |-> "", operator |-> "", value |-> NullV,
     queries |-> <<>>]
Condition(c, op, val) ==
    [kind |-> "Condition", column |-> c, operator |-> op, value |-> val,
     queries |-> <<>>]
And(qs) ==
    [kind |-> "And", column |-> "", operator |-> "", value |-> NullV,
     queries |-> qs]
Or(qs) ==
    [kind |-> "Or", column |-> "", operator |-> "", value |-> NullV,
     queries |-> qs]

\* value <op> condition.value, with the operators PartialEq/PartialOrd give
Compare(op, a, b) ==
    CASE op = "Eq" -> ValueEq(a, b)
      [] op = "NotEq" -> ~ValueEq(a, b)
      [] op = "Gt" -> partial_cmp(a, b) = "Greater"
      [] op = "Gte" -> partial_cmp(a, b) \in {"Greater", "Equal"}
      [] op = "Lt" -> partial_cmp(a, b) = "Less"
      [] op = "Lte" -> partial_cmp(a, b) \in {"Less", "Equal"}

\* Database::evaluate_condition
evaluate_condition(row, condition) ==
    IF condition.column \in DOMAIN row
    THEN Compare(condition.operator, row[condition.column], condition.value)
    ELSE FALSE

\* an enumeration of a set of naturals in ascending order
RECURSIVE Ascending(_)
Ascending(S) ==
    IF S = {} THEN <<>>
    ELSE LET m == CHOOSE x \in S : \A y \in S : x <= y
         IN <<m>> \o Ascending(S \ {m})

\* an enumeration of the keys of an index (the order of DashMap::iter is
\* unspecified; the model enumerates by variant, then payload)
KeyRank(k) ==
    (CASE k.t = "Null" -> 0 [] k.t = "Integer" -> 1 [] k.t = "Float" -> 2
       [] OTHER -> 3) * 1000 + k.v

RECURSIVE KeySeq(_)
KeySeq(S) ==
    IF S = {} THEN <<>>
    ELSE LET m == CHOOSE x \in S : \A y \in S : KeyRank(x) <= KeyRank(y)
         IN <<m>> \o KeySeq(S \ {m})

RECURSIVE Concat(_)
Concat(ss) == IF ss = <<>> THEN <<>> ELSE Head(ss) \o Concat(Tail(ss))

\* the Condition arm of execute_query when the column has an index
IndexScan(index, condition) ==
    IF condition.operator = "Eq"
    THEN IndexGet(index, condition.value)
    ELSE LET keys == KeySeq(DOMAIN index)
             hit == SelectSeq(keys,
                       LAMBDA k : Compare(condition.operator, k, condition.value))
         IN Concat([i \in 1..Len(hit) |-> index[hit[i]]])

\* the orders in which a HashSet<usize> of positions among n can iterate:
\* the order follows the hashes under the set's RandomState, so it is any
\* enumeration of the positions
HashSetOrders(n) == {order \in [1..n -> 1..n] : Range(order) = 1..n}

\* Database::execute_query, the HashSet of the Or arm iterating in set_order
RECURSIVE execute_query_in(_, _, _)
execute_query_in(table, query, set_order) ==
    CASE query.kind = "MatchAll" -> [i \in 1..Len(table.data) |-> i]
      [] query.kind = "Condition" ->
            IF query.column \in DOMAIN table.indexes
            THEN IndexScan(table.indexes[query.column], query)
            ELSE SelectSeq([i \in 1..Len(table.data) |-> i],
                           LAMBDA i : evaluate_condition(table.data[i], query))
      [] query.kind = "And" ->
            IF query.queries = <<>> THEN [i \in 1..Len(table.data) |-> i]
            ELSE LET result_sets == [i \in 1..Len(query.queries) |->
                                        execute_query_in(table, query.queries[i],
                                                         set_order)]
                 IN SelectSeq(result_sets[1],
                       LAMBDA item : \A i \in 2..Len(result_sets) :
                                        item \in Range(result_sets[i]))
      [] query.kind = "Or" ->
            LET final_result ==
                    UNION {Range(execute_query_in(table, query.queries[i],
                                                  set_order)) :
                           i \in 1..Len(query.queries)}
            IN SelectSeq(set_order, LAMBDA item : item \in final_result)
      [] OTHER -> <<>>

\* Database::execute_query for the callers whose queries hold no Or, where
\* the order of a HashSet plays no part
execute_query(table, query) ==
    execute_query_in(table, query, [i \in 1..Len(table.data) |-> i])

(***************************************************************************)
(* Joins: struct Join, enum JoinType, Database::execute_join_query.        *)
(***************************************************************************)
Join(join_type, target_table, left_col, right_col) ==
    [kind |-> "Join", join_type |-> join_type, target_table |-> target_table,
     on_condition |-> <<left_col, right_col>>]

\* left_row.get(left_col) == right_row.get(right_col): Option<&Value>, so
\* two absent entries are equal, and an absent one equals no value
OptionEq(left_row, left_col, right_row, right_col) ==
    IF left_col \in DOMAIN left_row /\ right_col \in DOMAIN right_row
    THEN ValueEq(left_row[left_col], right_row[right_col])
    ELSE left_col \notin DOMAIN left_row /\ right_col \notin DOMAIN right_row

\* a merge in which the left row keeps its entries
MergeRowsLeftWins(left_row, right_row) ==
    [c \in DOMAIN left_row \cup DOMAIN right_row |->
        IF c \in DOMAIN left_row THEN left_row[c] ELSE right_row[c]]

\* left_row.clone() extended with right_row: extend overwrites
MergeRows(left_row, right_row) ==
    [c \in DOMAIN left_row \cup DOMAIN right_row |->
        IF c \in DOMAIN right_row THEN right_row[c] ELSE left_row[c]]

\* a row without a match that is emitted as it is
NullColumnsNone(row, columns) == row

\* the row without a match: Value::Null inserted for every column of the
\* other table
NullColumns(row, columns) ==
    LET names == {columns[k].name : k \in 1..Len(columns)}
    IN [c \in DOMAIN row \cup names |-> IF c \in names THEN NullV ELSE row[c]]

\* Database::execute_join_query
execute_join_query(left_table, right_table, join) ==
    LET left_col == join.on_condition[1]
        right_col == join.on_condition[2]
        left == left_table.data
        right == right_table.data
        of_left(l) ==
            LET hit == SelectSeq(right,
                          LAMBDA r : OptionEq(l, left_col, r, right_col))
            IN [k \in 1..Len(hit) |-> MergeRows(l, hit[k])]
        of_right(r) ==
            LET hit == SelectSeq(left,
                          LAMBDA l : OptionEq(l, left_col, r, right_col))
            IN [k \in 1..Len(hit) |-> MergeRows(hit[k], r)]
    IN CASE join.join_type = "Inner" ->
               Concat([i \in 1..Len(left) |-> of_left(left[i])])
         [] join.join_type = "Left" ->
               Concat([i \in 1..Len(left) |->
                          IF of_left(left[i]) = <<>>
                          THEN <<NullColumns(left[i], right_table.columns)>>
                          ELSE of_left(left[i])])
         [] join.join_type = "Right" ->
               Concat([j \in 1..Len(right) |->
                          IF of_right(right[j]) = <<>>
                          THEN <<NullColumns(right[j], left_table.columns)>>
                          ELSE of_right(right[j])])

(***************************************************************************)
(* Aggregates: struct AggregateQuery, enum AggregateFunction,              *)
(* Database::execute_aggregate_query.  A float is a number of units of     *)
(* which FloatEpsilon make one epsilon; the sums are exact.                *)
(***************************************************************************)
NoFilter == [some |-> FALSE, query |-> MatchAll]

Filter(query) == [some |-> TRUE, query |-> query]

Aggregate(function, column, filter) ==
    [kind |-> "Aggregate", function |-> function, column |-> column,
     filter |-> filter]

\* 1.0 in units: some epsilons
FloatOne == 2 * FloatEpsilon

\* *i as f64
AsFloat(i) == i * FloatOne

\* impl Ord for Value: partial_cmp(..).unwrap_or(Ordering::Equal)
cmp(a, b) == IF partial_cmp(a, b) = "None" THEN "Equal" ELSE partial_cmp(a, b)

\* Iterator::min: the first of the elements that compare least
RECURSIVE IterMin(_, _)
IterMin(best, values) ==
    IF values = <<>> THEN best
    ELSE IterMin(IF cmp(best, Head(values)) = "Greater" THEN Head(values)
                 ELSE best,
                 Tail(values))

\* Iterator::max: the last of the elements that compare greatest
RECURSIVE IterMax(_, _)
IterMax(best, values) ==
    IF values = <<>> THEN best
    ELSE IterMax(IF cmp(best, Head(values)) = "Greater" THEN best
                 ELSE Head(values),
                 Tail(values))

\* the loop of Sum and Avg over the values: the sum of the integers and
\* floats, NaN as soon as a NaN is added, and the number of them
RECURSIVE SumOf(_)
SumOf(values) ==
    IF values = <<>> THEN [sum |-> 0, nan |-> FALSE, count |-> 0]
    ELSE LET rest == SumOf(Tail(values))
             value == Head(values)
         IN IF value.t = "Integer"
            THEN [rest EXCEPT !.sum = @ + AsFloat(value.v), !.count = @ + 1]
            ELSE IF value.t = "Float"
            THEN [sum |-> rest.sum + value.v, nan |-> rest.nan \/ IsNaN(value),
                  count |-> rest.count + 1]
            ELSE rest

\* filter_map(|row| row.get(&aggregate_query.column)): the entries of the
\* rows that have one
ValuesOf(rows_to_aggregate, column) ==
    LET having == SelectSeq(rows_to_aggregate, LAMBDA row : column \in DOMAIN row)
    IN [k \in 1..Len(having) |-> having[k][column]]

\* Database::execute_aggregate_query: the value, or the error; the quotient
\* of Avg is rounded to a unit
execute_aggregate_query(table, aggregate_query) ==
    LET positions == IF aggregate_query.filter.some
                     THEN execute_query(table, aggregate_query.filter.query)
                     ELSE [i \in 1..Len(table.data) |-> i]
        rows_to_aggregate == [k \in 1..Len(positions) |->
                                 table.data[positions[k]]]
        values == ValuesOf(rows_to_aggregate, aggregate_query.column)
        total == SumOf(values)
        function == aggregate_query.function
    IN CASE function = "Count" ->
               [ok |-> TRUE, err |-> "", value |-> IntV(Len(values))]
         [] function = "Sum" ->
               [ok |-> TRUE, err |-> "",
                value |-> IF total.nan THEN NaN ELSE FloatV(total.sum)]
         [] function = "Avg" ->
               [ok |-> TRUE, err |-> "",
                value |-> IF total.count = 0 THEN FloatV(0)
                          ELSE IF total.nan THEN NaN
                          ELSE FloatV(total.sum \div total.count)]
         [] function = "Min" ->
               IF values = <<>>
               THEN [ok |-> FALSE, err |-> "No values to aggregate",
                     value |-> NullV]
               ELSE [ok |-> TRUE, err |-> "",
                     value |-> IterMin(Head(values), Tail(values))]
         [] function = "Max" ->
               IF values = <<>>
               THEN [ok |-> FALSE, err |-> "No values to aggregate",
                     value |-> NullV]
               ELSE [ok |-> TRUE, err |-> "",
                     value |-> IterMax(Head(values), Tail(values))]

\* Database::aggregate
aggregate_result(tbls, table_name, aggregate_query) ==
    IF table_name \notin DOMAIN tbls
    THEN [ok |-> FALSE, err |-> "Table not found", value |-> NullV]
    ELSE execute_aggregate_query(tbls[table_name], aggregate_query)

(***************************************************************************)
(* The planner (optimizer.rs) and select.                                  *)
(***************************************************************************)
\* QueryPlanner::estimate_cost
RECURSIVE estimate_cost(_, _)
estimate_cost(query, table) ==
    CASE query.kind = "Condition" ->
            IF query.column \in DOMAIN table.indexes THEN 1 ELSE 10
      [] query.kind \in {"And", "Or"} ->
            IF query.queries = <<>> THEN 0
            ELSE estimate_cost(Head(query.queries), table)
                 + estimate_cost([query EXCEPT !.queries = Tail(@)], table)
      [] OTHER -> 100

\* sort_by_key is stable: q goes behind every query that costs no more
RECURSIVE SortByCost(_, _)
SortByCost(queries, table) ==
    IF queries = <<>> THEN <<>>
    ELSE LET q == queries[Len(queries)]
             sorted == SortByCost(SubSeq(queries, 1, Len(queries) - 1), table)
             before == SelectSeq(sorted, LAMBDA x :
                          estimate_cost(x, table) <= estimate_cost(q, table))
             behind == SelectSeq(sorted, LAMBDA x :
                          estimate_cost(x, table) > estimate_cost(q, table))
         IN before \o <<q>> \o behind

\* QueryPlanner::optimize_query: only the children of a top-level And move
optimize_query(query, table) ==
    IF query.kind = "And"
    THEN [query EXCEPT !.queries = SortByCost(@, table)]
    ELSE query

\* Database::select: the rows of the join for a Join, one row with the
\* result for an Aggregate; otherwise the rows at the positions
\* execute_query gives for the optimized query
select_result_in(tbls, table_name, query, set_order) ==
    IF table_name \notin DOMAIN tbls
    THEN [ok |-> FALSE, err |-> "Table not found", rows |-> <<>>]
    ELSE LET table == tbls[table_name]
             optimized_query == optimize_query(query, table)
             positions == execute_query_in(table, optimized_query, set_order)
         IN IF optimized_query.kind = "Join"
            THEN IF optimized_query.target_table \notin DOMAIN tbls
                 THEN [ok |-> FALSE, err |-> "Table not found", rows |-> <<>>]
                 ELSE [ok |-> TRUE, err |-> "",
                       rows |-> execute_join_query(
                                   table, tbls[optimized_query.target_table],
                                   optimized_query)]
            ELSE IF optimized_query.kind = "Aggregate"
            THEN LET result == execute_aggregate_query(table, optimized_query)
                 IN [ok |-> result.ok, err |-> result.err,
                     rows |-> IF result.ok THEN <<("result" :> result.value)>>
                              ELSE <<>>]
            ELSE [ok |-> TRUE, err |-> "",
                  rows |-> [k \in 1..Len(positions) |->
                               table.data[positions[k]]]]

\* Database::select for the callers whose queries hold no Or
select_result(tbls, table_name, query) ==
    select_result_in(tbls, table_name, query,
                     IF table_name \in DOMAIN tbls
                     THEN [i \in 1..Len(tbls[table_name].data) |-> i]
                     ELSE <<>>)

(***************************************************************************)
(* Update functions: fn(&mut HashMap<String, Value>).                      *)
(***************************************************************************)
SetCol(c, val) == [kind |-> "set", column |-> c, value |-> val]
RemoveCol(c) == [kind |-> "remove", column |-> c, value |-> NullV]

\* update_fn(&mut row)
ApplyFn(update_fn, row) ==
    IF update_fn.kind = "set"
    THEN [c \in DOMAIN row \cup {update_fn.column} |->
             IF c = update_fn.column THEN update_fn.value ELSE row[c]]
    ELSE [c \in DOMAIN row \ {update_fn.column} |-> row[c]]

(***************************************************************************)
(* Results of the internal operations: Result<_, String> together with the *)
(* table map the operation leaves.                                         *)
(***************************************************************************)
Ok(tbls) == [ok |-> TRUE, err |-> "", tables |-> tbls]
Err(e, tbls) == [ok |-> FALSE, err |-> e, tables |-> tbls]

\* the first non-empty error of a list of checks, "" when all pass
RECURSIVE FirstErr(_)
FirstErr(errs) ==
    IF errs = <<>> THEN ""
    ELSE IF Head(errs) # "" THEN Head(errs)
    ELSE FirstErr(Tail(errs))

(***************************************************************************)
(* insert_internal                                                         *)
(***************************************************************************)
\* an insert check whose ForeignKey arm accepts a table without the value
InsertConstraintErrNoLookup(tbls, table, row, col, constraint) ==
    CASE constraint.kind = "NotNull" ->
            IF col.name \notin DOMAIN row \/ row[col.name] = NullV
            THEN "cannot be null" ELSE ""
      [] constraint.kind = "Unique" ->
            IF col.name \in DOMAIN row /\
               \E i \in 1..Len(table.data) :
                   GetEq(table.data[i], col.name, row[col.name])
            THEN "must be unique" ELSE ""
      [] constraint.kind = "ForeignKey" ->
            IF col.name \notin DOMAIN row THEN ""
            ELSE IF constraint.table \notin DOMAIN tbls
            THEN "Foreign key table not found"
            ELSE ""

\* one arm of the match on a constraint of column col, for the new row
InsertConstraintErr(tbls, table, row, col, constraint) ==
    CASE constraint.kind = "NotNull" ->
            IF col.name \notin DOMAIN row \/ row[col.name] = NullV
            THEN "cannot be null" ELSE ""
      [] constraint.kind = "Unique" ->
            IF col.name \in DOMAIN row /\
               \E i \in 1..Len(table.data) :
                   GetEq(table.data[i], col.name, row[col.name])
            THEN "must be unique" ELSE ""
      [] constraint.kind = "ForeignKey" ->
            IF col.name \notin DOMAIN row THEN ""
            ELSE IF constraint.table \notin DOMAIN tbls
            THEN "Foreign key table not found"
            ELSE IF ~\E i \in 1..Len(tbls[constraint.table].data) :
                       GetEq(tbls[constraint.table].data[i], constraint.column,
                             row[col.name])
            THEN "Foreign key violation" ELSE ""

\* the match (&col.data_type, value) of insert_internal
type_matches(data_type, value) == value.t = data_type \/ value.t = "Null"

\* the type check and the missing-column check that follow the constraints
InsertTypeErr(row, col) ==
    IF col.name \in DOMAIN row
    THEN IF type_matches(col.data_type, row[col.name]) THEN ""
         ELSE "Invalid data type"
    ELSE IF NotNull \notin Range(col.constraints) THEN ""
    ELSE "Missing column"

\* the body of the loop over table.columns: constraints in order, then type
InsertColumnErr(tbls, table, row, col) ==
    FirstErr([k \in 1..Len(col.constraints) |->
                 InsertConstraintErr(tbls, table, row, col, col.constraints[k])]
             \o <<InsertTypeErr(row, col)>>)

\* the index maintenance, the push of the row and the Merkle rebuild
InsertApply(table, row) ==
    LET new_index == Len(table.data) + 1
        indexed == [table EXCEPT !.indexes =
                       [c \in DOMAIN table.indexes |->
                           IF c \in DOMAIN row
                           THEN IndexPush(table.indexes[c], row[c], new_index)
                           ELSE table.indexes[c]]]
    IN build_merkle_tree([indexed EXCEPT !.data = Append(@, row)])

insert_internal(tbls, table_name, row) ==
    IF table_name \notin DOMAIN tbls THEN Err("Table not found", tbls)
    ELSE LET table == tbls[table_name]
             e == FirstErr([k \in 1..Len(table.columns) |->
                               InsertColumnErr(tbls, table, row, table.columns[k])])
         IN IF e # "" THEN Err(e, tbls)
            ELSE Ok([tbls EXCEPT ![table_name] = InsertApply(table, row)])

(***************************************************************************)
(* update_internal                                                         *)
(***************************************************************************)
\* an update check whose NotNull arm tests only value.is_none()
UpdateConstraintErrNoneOnly(tbls, table, index, updated_row, col, constraint) ==
    CASE constraint.kind = "NotNull" ->
            IF col.name \notin DOMAIN updated_row
            THEN "cannot be null" ELSE ""
      [] constraint.kind = "Unique" ->
            IF col.name \in DOMAIN updated_row /\
               \E i \in 1..Len(table.data) :
                   i # index /\ GetEq(table.data[i], col.name, updated_row[col.name])
            THEN "must be unique" ELSE ""
      [] constraint.kind = "ForeignKey" ->
            IF col.name \notin DOMAIN updated_row THEN ""
            ELSE IF constraint.table \notin DOMAIN tbls
            THEN "Foreign key table not found"
            ELSE IF ~\E i \in 1..Len(tbls[constraint.table].data) :
                       GetEq(tbls[constraint.table].data[i], constraint.column,
                             updated_row[col.name])
            THEN "Foreign key violation" ELSE ""

\* one arm of the match on a constraint, for the updated copy of row index
UpdateConstraintErr(tbls, table, index, updated_row, col, constraint) ==
    CASE constraint.kind = "NotNull" ->
            IF col.name \notin DOMAIN updated_row \/ updated_row[col.name] = NullV
            THEN "cannot be null" ELSE ""
      [] constraint.kind = "Unique" ->
            IF col.name \in DOMAIN updated_row /\
               \E i \in 1..Len(table.data) :
                   i # index /\ GetEq(table.data[i], col.name, updated_row[col.name])
            THEN "must be unique" ELSE ""
      [] constraint.kind = "ForeignKey" ->
            IF col.name \notin DOMAIN updated_row THEN ""
            ELSE IF constraint.table \notin DOMAIN tbls
            THEN "Foreign key table not found"
            ELSE IF ~\E i \in 1..Len(tbls[constraint.table].data) :
                       GetEq(tbls[constraint.table].data[i], constraint.column,
                             updated_row[col.name])
            THEN "Foreign key violation" ELSE ""

\* the checks of one row to update: every column, every constraint, in order
UpdateRowErr(tbls, table, index, update_fn) ==
    LET updated_row == ApplyFn(update_fn, table.data[index])
    IN FirstErr([k \in 1..Len(table.columns) |->
           FirstErr([j \in 1..Len(table.columns[k].constraints) |->
               UpdateConstraintErr(tbls, table, index, updated_row,
                                   table.columns[k],
                                   table.columns[k].constraints[j])])])

\* the second loop, the rebuild of the indexes and of the Merkle tree
UpdateApply(table, indices_to_update, update_fn) ==
    LET written == [table EXCEPT !.data =
                       [i \in 1..Len(table.data) |->
                           IF i \in Range(indices_to_update)
                           THEN ApplyFn(update_fn, table.data[i])
                           ELSE table.data[i]]]
    IN IF Len(indices_to_update) > 0
       THEN build_merkle_tree(RebuildIndexes(written))
       ELSE written

\* an update that writes the updated rows before it checks them
update_internal_write_first(tbls, table_name, query, update_fn) ==
    IF table_name \notin DOMAIN tbls THEN Err("Table not found", tbls)
    ELSE LET table == tbls[table_name]
             indices_to_update == execute_query(table, query)
             written == [tbls EXCEPT ![table_name] =
                            UpdateApply(table, indices_to_update, update_fn)]
             e == FirstErr([k \in 1..Len(indices_to_update) |->
                               UpdateRowErr(tbls, table, indices_to_update[k],
                                            update_fn)])
         IN IF e # "" THEN Err(e, written) ELSE Ok(written)

update_internal(tbls, table_name, query, update_fn) ==
    IF table_name \notin DOMAIN tbls THEN Err("Table not found", tbls)
    ELSE LET table == tbls[table_name]
             indices_to_update == execute_query(table, query)
             e == FirstErr([k \in 1..Len(indices_to_update) |->
                               UpdateRowErr(tbls, table, indices_to_update[k],
                                            update_fn)])
         IN IF e # "" THEN Err(e, tbls)
            ELSE Ok([tbls EXCEPT ![table_name] =
                        UpdateApply(table, indices_to_update, update_fn)])

(***************************************************************************)
(* delete_internal                                                         *)
(***************************************************************************)
\* a delete that rewrites the rows and leaves the cached Merkle tree alone
DeleteApplyNoMerkle(table, indices_to_delete) ==
    LET kept == SelectSeq([i \in 1..Len(table.data) |-> i],
                          LAMBDA i : i \notin Range(indices_to_delete))
        new_data == [j \in 1..Len(kept) |-> table.data[kept[j]]]
    IN RebuildIndexes([table EXCEPT !.data = new_data])

DeleteApply(table, indices_to_delete) ==
    LET kept == SelectSeq([i \in 1..Len(table.data) |-> i],
                          LAMBDA i : i \notin Range(indices_to_delete))
        new_data == [j \in 1..Len(kept) |-> table.data[kept[j]]]
        rewritten == [table EXCEPT !.data = new_data]
    IN IF Len(indices_to_delete) > 0
       THEN build_merkle_tree(RebuildIndexes(rewritten))
       ELSE rewritten

\* the Ok value of delete_internal: indices_to_delete.len()
deleted_count(tbls, table_name, query) ==
    IF table_name \notin DOMAIN tbls THEN 0
    ELSE Len(execute_query(tbls[table_name], query))

delete_internal(tbls, table_name, query) ==
    IF table_name \notin DOMAIN tbls THEN Err("Table not found", tbls)
    ELSE Ok([tbls EXCEPT ![table_name] =
                DeleteApply(tbls[table_name],
                            execute_query(tbls[table_name], query))])

(***************************************************************************)
(* Transactions: enum Operation, struct Transaction, Database::commit.     *)
(***************************************************************************)
NoFn == RemoveCol("")

OpInsert(t, row) ==
    [kind |-> "Insert", table_name |-> t, row |-> row, query |-> MatchAll,
     update_fn |-> NoFn]
OpUpdate(t, q, f) ==
    [kind |-> "Update", table_name |-> t, row |-> EmptyRow, query |-> q,
     update_fn |-> f]
OpDelete(t, q) ==
    [kind |-> "Delete", table_name |-> t, row |-> EmptyRow, query |-> q,
     update_fn |-> NoFn]

(***************************************************************************)
(* WAL records: enum WalEntry.  An Update record holds the query but not   *)
(* the update function.                                                    *)
(***************************************************************************)
WalCreateTable(n, cols) ==
    [kind |-> "CreateTable", table_name |-> n, columns |-> cols,
     row |-> EmptyRow, query |-> MatchAll]
WalInsert(t, row) ==
    [kind |-> "Insert", table_name |-> t, columns |-> <<>>, row |-> row,
     query |-> MatchAll]
WalUpdate(t, q) ==
    [kind |-> "Update", table_name |-> t, columns |-> <<>>, row |-> EmptyRow,
     query |-> q]
WalDelete(t, q) ==
    [kind |-> "Delete", table_name |-> t, columns |-> <<>>, row |-> EmptyRow,
     query |-> q]

\* the match of commit that turns an Operation into its WalEntry
WalEntryOf(op) ==
    CASE op.kind = "Insert" -> WalInsert(op.table_name, op.row)
      [] op.kind = "Update" -> WalUpdate(op.table_name, op.query)
      [] op.kind = "Delete" -> WalDelete(op.table_name, op.query)

\* the match of commit that applies one Operation to the table map
ApplyOp(tbls, op) ==
    CASE op.kind = "Insert" -> insert_internal(tbls, op.table_name, op.row)
      [] op.kind = "Update" ->
            update_internal(tbls, op.table_name, op.query, op.update_fn)
      [] op.kind = "Delete" -> delete_internal(tbls, op.table_name, op.query)

\* commit that returns the error without restoring the clone
RECURSIVE CommitApplyNoRestore(_, _, _)
CommitApplyNoRestore(tbls, operations, original_tables) ==
    IF operations = <<>> THEN Ok(tbls)
    ELSE LET result == ApplyOp(tbls, Head(operations))
         IN IF ~result.ok THEN Err(result.err, tbls)
            ELSE CommitApplyNoRestore(result.tables, Tail(operations),
                                      original_tables)

\* commit that applies the buffered operations last to first
RECURSIVE CommitApplyReversed(_, _, _)
CommitApplyReversed(tbls, operations, original_tables) ==
    IF operations = <<>> THEN Ok(tbls)
    ELSE LET result == ApplyOp(tbls, operations[Len(operations)])
         IN IF ~result.ok THEN Err(result.err, original_tables)
            ELSE CommitApplyReversed(result.tables,
                                     SubSeq(operations, 1, Len(operations) - 1),
                                     original_tables)

\* the second loop of commit: apply in order, restore the clone on an error
RECURSIVE CommitApply(_, _, _)
CommitApply(tbls, operations, original_tables) ==
    IF operations = <<>> THEN Ok(tbls)
    ELSE LET result == ApplyOp(tbls, Head(operations))
         IN IF ~result.ok THEN Err(result.err, original_tables)
            ELSE CommitApply(result.tables, Tail(operations), original_tables)

(***************************************************************************)
(* create_table, create_index                                              *)
(***************************************************************************)
NewTable(name, columns) ==
    [name |-> name, columns |-> columns, data |-> <<>>,
     indexes |-> [c \in {} |-> EmptyIndex], merkle_tree |-> NoTree]

\* the part of create_table that runs under the table lock
create_table_internal(tbls, name, columns) ==
    IF name \in DOMAIN tbls THEN Err("Table already exists", tbls)
    ELSE Ok([n \in DOMAIN tbls \cup {name} |->
                IF n = name THEN NewTable(name, columns) ELSE tbls[n]])

create_index_internal(tbls, table_name, column_name) ==
    IF table_name \notin DOMAIN tbls THEN Err("Table not found", tbls)
    ELSE IF ~\E k \in 1..Len(tbls[table_name].columns) :
                tbls[table_name].columns[k].name = column_name
    THEN Err("Column not found", tbls)
    ELSE Ok([tbls EXCEPT ![table_name].indexes =
                [c \in DOMAIN @ \cup {column_name} |->
                    IF c = column_name
                    THEN BuildIndex(tbls[table_name].data, column_name)
                    ELSE @[c]]])

(***************************************************************************)
(* Recovery: replay_wal and apply_wal_entry.  Every entry is applied       *)
(* through the public method, whose result is dropped; an Update entry is  *)
(* skipped.  The public methods log again what they are given, so a replay *)
(* appends the replayed entries to the WAL file.                           *)
(***************************************************************************)
\* a replay that skips Delete entries as it skips Update entries
apply_wal_entry_skip_delete(tbls, entry) ==
    CASE entry.kind = "CreateTable" ->
            create_table_internal(tbls, entry.table_name, entry.columns).tables
      [] entry.kind = "Insert" ->
            insert_internal(tbls, entry.table_name, entry.row).tables
      [] OTHER -> tbls

\* a replay that takes an Update entry for the deletion of the rows it names
apply_wal_entry_update_deletes(tbls, entry) ==
    CASE entry.kind = "CreateTable" ->
            create_table_internal(tbls, entry.table_name, entry.columns).tables
      [] entry.kind = "Insert" ->
            insert_internal(tbls, entry.table_name, entry.row).tables
      [] entry.kind = "Update" ->
            delete_internal(tbls, entry.table_name, entry.query).tables
      [] entry.kind = "Delete" ->
            delete_internal(tbls, entry.table_name, entry.query).tables

apply_wal_entry(tbls, entry) ==
    CASE entry.kind = "CreateTable" ->
            create_table_internal(tbls, entry.table_name, entry.columns).tables
      [] entry.kind = "Insert" ->
            insert_internal(tbls, entry.table_name, entry.row).tables
      [] entry.kind = "Update" -> tbls
      [] entry.kind = "Delete" ->
            delete_internal(tbls, entry.table_name, entry.query).tables

\* bytes of the WAL file at which bincode::deserialize_from fails: what a
\* write that stopped inside a record has left
WalCorrupt == [kind |-> "Corrupt"]

\* the entries replay_wal decodes: those before the first such bytes
RECURSIVE Decoded(_)
Decoded(entries) ==
    IF entries = <<>> THEN <<>>
    ELSE IF Head(entries).kind = "Corrupt" THEN <<>>
    ELSE <<Head(entries)>> \o Decoded(Tail(entries))

\* a replay that passes over the bytes it cannot decode and goes on
RECURSIVE replay_wal_resuming(_, _)
replay_wal_resuming(tbls, entries) ==
    IF entries = <<>> THEN tbls
    ELSE IF Head(entries).kind = "Corrupt"
    THEN replay_wal_resuming(tbls, Tail(entries))
    ELSE replay_wal_resuming(apply_wal_entry(tbls, Head(entries)), Tail(entries))

\* the loop of replay_wal: an entry is applied as soon as it is decoded; the
\* loop ends at the end of the file or at the first decoding error; applied
\* is the table map the entry leaves, which the rest of the loop starts from
RECURSIVE replay_wal(_, _)
replay_wal(tbls, entries) ==
    IF entries = <<>> THEN tbls
    ELSE IF Head(entries).kind = "Corrupt" THEN tbls
    ELSE CHOOSE replayed \in
            {replay_wal(applied, Tail(entries)) :
                applied \in {apply_wal_entry(tbls, Head(entries))}} : TRUE

\* the Result of replay_wal
replay_wal_result(tbls, entries) ==
    IF Decoded(entries) = entries THEN Ok(replay_wal(tbls, entries))
    ELSE Err("InvalidData", replay_wal(tbls, entries))

\* the records the public methods called by apply_wal_entry append
Relogged(entries) == SelectSeq(Decoded(entries), LAMBDA e : e.kind # "Update")

EmptyTables == [n \in {} |-> NewTable("", <<>>)]

(***************************************************************************)
(* The snapshot codec: save and the snapshot part of load.  Serde skips    *)
(* the indexes and the Merkle tree of a Table; a row is written as its     *)
(* entries.                                                                *)
(***************************************************************************)
Key == 0

NoFile == [some |-> FALSE, key |-> Key, nonce |-> FALSE, bytes |-> {}]

\* bincode::serialize of one Table: name, columns and rows
EncodeTable(table) ==
    [name |-> table.name, columns |-> table.columns, data |-> Leaves(table.data)]

\* bincode::serialize(&*tables): the entries of the map
EncodeTables(tbls) == {<<n, EncodeTable(tbls[n])>> : n \in DOMAIN tbls}

\* a decoder that drops the null entries of a row
DecodeRowSkipNull(entries) ==
    LET kept == SelectSeq(entries, LAMBDA e : e[2] # NullV)
    IN [c \in {kept[i][1] : i \in 1..Len(kept)} |->
           (CHOOSE e \in Range(kept) : e[1] = c)[2]]

\* deserialization of a row: the map of its entries
DecodeRow(entries) ==
    [c \in {entries[i][1] : i \in 1..Len(entries)} |->
        (CHOOSE e \in Range(entries) : e[1] = c)[2]]

\* deserialization of one Table: the skipped fields take their defaults
DecodeTable(enc) ==
    [name |-> enc.name, columns |-> enc.columns,
     data |-> [i \in 1..Len(enc.data) |-> DecodeRow(enc.data[i])],
     indexes |-> [c \in {} |-> EmptyIndex], merkle_tree |-> NoTree]

\* bincode::deserialize of the table map
DecodeTables(bytes) ==
    [n \in {e[1] : e \in bytes} |->
        DecodeTable((CHOOSE e \in bytes : e[1] = n)[2])]

\* the file save writes: nonce and ciphertext of the compressed encoding
SaveFile(key, tbls) ==
    [some |-> TRUE, key |-> key, nonce |-> TRUE, bytes |-> EncodeTables(tbls)]

\* a file that ends before the twelfth byte of its nonce
ShortFile == [some |-> TRUE, key |-> Key, nonce |-> FALSE, bytes |-> {}]

\* the call does not return: the slice index panics
Panic(tbls) == [ok |-> FALSE, err |-> "panic", tables |-> tbls]

\* the loop of load over the restored tables: an index for every Unique
\* column, then the Merkle tree
RestoreTable(table) ==
    LET unique == {table.columns[k].name : k \in
                      {j \in 1..Len(table.columns) :
                          Unique \in Range(table.columns[j].constraints)}}
    IN build_merkle_tree(
          [table EXCEPT !.indexes = [c \in unique |-> BuildIndex(table.data, c)]])

\* the snapshot part of load: the table map after it, or the error
load_snapshot(tbls, file, key) ==
    IF ~file.some THEN Ok(tbls)
    ELSE IF ~file.nonce THEN Panic(tbls)
    ELSE IF file.key # key THEN Err("InvalidData", tbls)
    ELSE LET restored == DecodeTables(file.bytes)
         IN Ok([n \in DOMAIN restored |-> RestoreTable(restored[n])])

(***************************************************************************)
(* Inputs of the model: the schemas, rows, queries, update functions and   *)
(* transactions the callers pass.                                          *)
(***************************************************************************)
UsersColumns ==
    <<Column("id", "Integer", <<NotNull, Unique>>),
      Column("score", "Float", <<>>)>>
PostsColumns ==
    <<Column("uid", "Integer", <<ForeignKey("users", "id")>>)>>

TableInputs ==
    {[name |-> "users", columns |-> UsersColumns],
     [name |-> "posts", columns |-> PostsColumns]}

UserRow(id, score) == ("id" :> id) @@ ("score" :> score)

InsertInputs ==
    {[table_name |-> "users", row |-> UserRow(IntV(0), FloatV(0))],
     [table_name |-> "users", row |-> UserRow(IntV(1), FloatV(1))],
     [table_name |-> "users", row |-> UserRow(NullV, FloatV(0))],
     [table_name |-> "users", row |-> UserRow(IntV(1), IntV(0))],
     [table_name |-> "posts", row |-> ("uid" :> IntV(0))],
     [table_name |-> "posts", row |-> EmptyRow]}

UpdateInputs ==
    {[table_name |-> "users", query |-> MatchAll,
      update_fn |-> SetCol("id", IntV(2))],
     [table_name |-> "users", query |-> Condition("id", "Eq", IntV(0)),
      update_fn |-> SetCol("id", NullV)],
     [table_name |-> "users", query |-> Condition("id", "Eq", IntV(0)),
      update_fn |-> SetCol("score", IntV(0))],
     [table_name |-> "posts", query |-> MatchAll,
      update_fn |-> SetCol("uid", IntV(1))],
     [table_name |-> "users", query |-> MatchAll,
      update_fn |-> SetCol("id", IntV(1))]}

DeleteInputs ==
    {[table_name |-> "users", query |-> Condition("id", "Eq", IntV(0))]}

IndexInputs ==
    {[table_name |-> "users", column_name |-> "score"]}

Transactions ==
    {<<OpInsert("users", UserRow(IntV(0), FloatV(0))),
       OpInsert("posts", ("uid" :> IntV(0)))>>,
     <<OpInsert("users", UserRow(IntV(1), FloatV(1))),
       OpInsert("users", ("score" :> FloatV(0)))>>,
     <<OpUpdate("users", MatchAll, SetCol("score", FloatV(1))),
       OpDelete("users", Condition("score", "Gte", FloatV(1)))>>}

(***************************************************************************)
(* History of the last call, kept for stating the properties: the call,    *)
(* its result, the table map and the length of the WAL before it, and the  *)
(* operations it was given.  plain is true as long as only create_table,   *)
(* insert and delete have been called; errors counts the calls that        *)
(* returned an error.                                                      *)
(***************************************************************************)
Record(op, result, operations, plain) ==
    [op |-> op, ok |-> result.ok, err |-> result.err, pre |-> tables,
     walLen |-> Len(wal), operations |-> operations,
     plain |-> plain /\ ~fresh.loaded,
     errors |-> IF result.ok THEN last.errors ELSE last.errors + 1]

NoDb == [loaded |-> FALSE, tables |-> EmptyTables]

\* the callers that run concurrently; a caller that is in no call is idle
Tasks == {"t1", "t2"}

Idle == [pc |-> "idle"]

NoLock == [writer |-> "free", readers |-> {}]

NoTrace ==
    [calls |-> 0, errors |-> 0, logged |-> <<>>, applied |-> <<>>,
     acked |-> {}, stable |-> EmptyTables,
     returned |-> [call |-> [kind |-> "none"], ok |-> TRUE, err |-> ""]]

Init ==
    /\ tables = EmptyTables
    /\ wal = <<>>
    /\ fresh = NoDb
    /\ last = [op |-> "new", ok |-> TRUE, err |-> "", pre |-> EmptyTables,
               walLen |-> 0, operations |-> <<>>, plain |-> TRUE,
               errors |-> 0]
    /\ snapshot = NoFile
    /\ tasks = [t \in Tasks |-> Idle]
    /\ wal_lock = "free"
    /\ tables_lock = NoLock
    /\ trace = NoTrace

(***************************************************************************)
(* The public operations.  Each mutating operation appends its WAL record  *)
(* first and then applies the change under the table lock.                 *)
(***************************************************************************)
\* the calls of a history that return an error are at most MaxErrors
Allowed(result) == IF result.ok THEN TRUE ELSE last.errors < MaxErrors

RoomFor(t, n) ==
    IF t \in DOMAIN tables THEN Len(tables[t].data) + n <= MaxRows ELSE TRUE

create_table(name, columns) ==
    /\ Len(wal) < MaxWal
    /\ LET result == create_table_internal(tables, name, columns)
       IN /\ Allowed(result)
          /\ wal' = Append(wal, WalCreateTable(name, columns))
          /\ tables' = result.tables
          /\ last' = Record("create_table", result, <<>>, last.plain)
    /\ UNCHANGED <<fresh, snapshot, conc>>

create_index(table_name, column_name) ==
    /\ LET result == create_index_internal(tables, table_name, column_name)
       IN /\ Allowed(result)
          /\ tables' = result.tables
          /\ last' = Record("create_index", result, <<>>, FALSE)
    /\ UNCHANGED <<wal, fresh, snapshot, conc>>

\* select reads under the table lock and changes nothing; the history keeps
\* what it returned
select(table_name, query) ==
    /\ \E set_order \in HashSetOrders(IF table_name \in DOMAIN tables
                                       THEN Len(tables[table_name].data)
                                       ELSE 0) :
       LET result == select_result_in(tables, table_name, query, set_order)
       IN /\ Allowed(result)
          /\ last' = [op |-> "select", ok |-> result.ok, err |-> result.err,
                      pre |-> tables, walLen |-> Len(wal), operations |-> <<>>,
                      plain |-> last.plain,
                      errors |-> IF result.ok THEN last.errors
                                 ELSE last.errors + 1,
                      table_name |-> table_name, query |-> query,
                      rows |-> result.rows]
    /\ UNCHANGED <<tables, wal, fresh, snapshot, conc>>

insert(table_name, row) ==
    /\ Len(wal) < MaxWal
    /\ RoomFor(table_name, 1)
    /\ LET result == insert_internal(tables, table_name, row)
       IN /\ Allowed(result)
          /\ wal' = Append(wal, WalInsert(table_name, row))
          /\ tables' = result.tables
          /\ last' = Record("insert", result, <<OpInsert(table_name, row)>>,
                            last.plain)
    /\ UNCHANGED <<fresh, snapshot, conc>>

update(table_name, query, update_fn) ==
    /\ Len(wal) < MaxWal
    /\ LET result == update_internal(tables, table_name, query, update_fn)
       IN /\ Allowed(result)
          /\ wal' = Append(wal, WalUpdate(table_name, query))
          /\ tables' = result.tables
          /\ last' = Record("update", result,
                            <<OpUpdate(table_name, query, update_fn)>>, FALSE)
    /\ UNCHANGED <<fresh, snapshot, conc>>

delete(table_name, query) ==
    /\ Len(wal) < MaxWal
    /\ LET result == delete_internal(tables, table_name, query)
       IN /\ Allowed(result)
          /\ wal' = Append(wal, WalDelete(table_name, query))
          /\ tables' = result.tables
          /\ last' = Record("delete", result, <<OpDelete(table_name, query)>>,
                            last.plain)
                     @@ ("count" :> deleted_count(tables, table_name, query))
    /\ UNCHANGED <<fresh, snapshot, conc>>

commit(transaction) ==
    /\ Len(wal) + Len(transaction) <= MaxWal
    /\ \A t \in DOMAIN tables :
          RoomFor(t, Cardinality({k \in 1..Len(transaction) :
                                     transaction[k].kind = "Insert" /\
                                     transaction[k].table_name = t}))
    /\ LET result == CommitApply(tables, transaction, tables)
       IN /\ Allowed(result)
          /\ wal' = wal \o [k \in 1..Len(transaction) |->
                               WalEntryOf(transaction[k])]
          /\ tables' = result.tables
          /\ last' = Record("commit", result, transaction, FALSE)
    /\ UNCHANGED <<fresh, snapshot, conc>>

\* Database::new with the same key on the same WAL path, then load of the
\* snapshot path: the snapshot when there is one, then the WAL; a history
\* has one recovering Database
load_fresh ==
    /\ ~fresh.loaded
    /\ Len(wal) <= MaxWal
    /\ fresh' = [loaded |-> TRUE,
                 tables |-> replay_wal(
                               load_snapshot(EmptyTables, snapshot, Key).tables,
                               wal)]
    /\ wal' = wal \o Relogged(wal)
    /\ last' = [op |-> "load_fresh", ok |-> TRUE, err |-> "", pre |-> tables,
                walLen |-> Len(wal), operations |-> <<>>,
                plain |-> last.plain,
                errors |-> last.errors]
    /\ UNCHANGED <<tables, snapshot, conc>>

\* save: the snapshot of the table map under the read lock, then the
\* truncation of the WAL file
save ==
    /\ snapshot' = SaveFile(Key, tables)
    /\ wal' = <<>>
    /\ last' = [op |-> "save", ok |-> TRUE, err |-> "", pre |-> tables,
                walLen |-> Len(wal), operations |-> <<>>, plain |-> last.plain,
                errors |-> last.errors]
    /\ UNCHANGED <<tables, fresh, conc>>

Next ==
    \/ \E d \in TableInputs : create_table(d.name, d.columns)
    \/ \E i \in IndexInputs : create_index(i.table_name, i.column_name)
    \/ \E i \in InsertInputs : insert(i.table_name, i.row)
    \/ \E u \in UpdateInputs : update(u.table_name, u.query, u.update_fn)
    \/ \E d \in DeleteInputs : delete(d.table_name, d.query)
    \/ \E t \in Transactions : commit(t)
    \/ load_fresh

Spec == Init /\ [][Next]_vars

(***************************************************************************)
(* The public operations step by step, for callers that run concurrently.  *)
(* A step is what a call does between two suspension points: the           *)
(* acquisition of a lock, or the synchronous code under it up to the next  *)
(* acquisition or the return.  A guard is released where its scope ends:   *)
(* the WAL guard of create_table and insert at the end of the logging      *)
(* statement, the WAL guard of commit at its return, a table guard at the  *)
(* return.  trace is history: the calls begun, the WAL writes that failed, *)
(* the ids of the calls in the order of their WAL records and in the order *)
(* their effects reached the table map, the rows of the inserts that       *)
(* returned Ok, and the table map as the last completed mutation left it.  *)
(***************************************************************************)
MaxCalls == 4

CallCreateTable(n, cols) == [kind |-> "create_table", name |-> n, columns |-> cols]
CallInsert(t, row) == [kind |-> "insert", table_name |-> t, row |-> row]
CallDelete(t, q) == [kind |-> "delete", table_name |-> t, query |-> q]
CallCommit(ops) == [kind |-> "commit", operations |-> ops]
CallSave == [kind |-> "save"]
CallSelect(t, q) == [kind |-> "select", table_name |-> t, query |-> q]
CallLoad == [kind |-> "load"]

\* the records a call logs
RecordsOf(call) ==
    CASE call.kind = "create_table" -> <<WalCreateTable(call.name, call.columns)>>
      [] call.kind = "insert" -> <<WalInsert(call.table_name, call.row)>>
      [] call.kind = "delete" -> <<WalDelete(call.table_name, call.query)>>
      [] call.kind = "commit" ->
            [k \in 1..Len(call.operations) |-> WalEntryOf(call.operations[k])]

\* what create_table, insert and delete do under the table lock
Mutation(tbls, call) ==
    CASE call.kind = "create_table" ->
            create_table_internal(tbls, call.name, call.columns)
      [] call.kind = "insert" ->
            insert_internal(tbls, call.table_name, call.row)
      [] call.kind = "delete" ->
            delete_internal(tbls, call.table_name, call.query)

\* the rows the successful call has inserted
InsertedBy(call) ==
    CASE call.kind = "insert" -> {[table_name |-> call.table_name, row |-> call.row]}
      [] call.kind = "commit" ->
            {[table_name |-> call.operations[k].table_name,
              row |-> call.operations[k].row] :
                k \in {j \in 1..Len(call.operations) :
                          call.operations[j].kind = "Insert"}}
      [] OTHER -> {}

\* the acknowledged inserts whose rows the table map still holds
StillHeld(acked, tbls) ==
    {a \in acked : /\ a.table_name \in DOMAIN tbls
                   /\ a.row \in Range(tbls[a.table_name].data)}

\* what the call that has returned gave its caller
Returned(call, ok, err) == [call |-> call, ok |-> ok, err |-> err]

\* tokio RwLock: write() is granted when nobody holds the lock
CanWrite(lock) == lock.writer = "free" /\ lock.readers = {}

\* a read lock that is granted whoever holds the lock
CanReadAlways(lock) == TRUE

\* tokio RwLock: read() is granted when no writer holds the lock
CanRead(lock) == lock.writer = "free"

\* a drop that gives back a read guard only
UnlockReadOnly(lock, t) == [lock EXCEPT !.readers = @ \ {t}]

\* the drop of the table guard of task t
Unlock(lock, t) ==
    [writer |-> IF lock.writer = t THEN "free" ELSE lock.writer,
     readers |-> lock.readers \ {t}]

\* a call that begins to log without waiting for the WAL lock
begin_mutation_unlocked(t, call) ==
    /\ tasks[t].pc = "idle"
    /\ trace.calls < MaxCalls
    /\ wal_lock' = t
    /\ tasks' = [tasks EXCEPT ![t] =
                    [pc |-> "log", call |-> call, id |-> trace.calls + 1]]
    /\ trace' = [trace EXCEPT !.calls = @ + 1]
    /\ UNCHANGED <<tables, wal, fresh, last, snapshot, tables_lock>>

\* self.wal_writer.write().await: create_table, insert, delete and commit
\* begin by taking the WAL lock
begin_mutation(t, call) ==
    /\ tasks[t].pc = "idle"
    /\ trace.calls < MaxCalls
    /\ wal_lock = "free"
    /\ wal_lock' = t
    /\ tasks' = [tasks EXCEPT ![t] =
                    [pc |-> "log", call |-> call, id |-> trace.calls + 1]]
    /\ trace' = [trace EXCEPT !.calls = @ + 1]
    /\ UNCHANGED <<tables, wal, fresh, last, snapshot, tables_lock>>

\* a logging step that writes no record
log_records_skipped(t) ==
    /\ tasks[t].pc = "log"
    /\ wal_lock' = IF tasks[t].call.kind = "commit" THEN t ELSE "free"
    /\ tasks' = [tasks EXCEPT ![t].pc = "lock_tables"]
    /\ UNCHANGED <<tables, wal, fresh, last, snapshot, tables_lock, trace>>

\* wal_writer.log for every record of the call: all are written, or the
\* write of record n + 1 fails and the call returns the error
log_records(t) ==
    /\ tasks[t].pc = "log"
    /\ LET records == RecordsOf(tasks[t].call)
       IN \E n \in 0..Len(records) :
            /\ n < Len(records) => trace.errors < MaxErrors
            /\ wal' = wal \o SubSeq(records, 1, n)
            /\ trace' = [trace EXCEPT
                  !.logged = @ \o [k \in 1..n |->
                                      [id |-> tasks[t].id, of |-> Len(records)]],
                  !.errors = IF n < Len(records) THEN @ + 1 ELSE @,
                  !.returned = IF n < Len(records)
                               THEN Returned(tasks[t].call, FALSE, "io") ELSE @]
            /\ IF n < Len(records)
               THEN /\ wal_lock' = "free"
                    /\ tasks' = [tasks EXCEPT ![t] = Idle]
               ELSE /\ wal_lock' = IF tasks[t].call.kind = "commit"
                                   THEN t ELSE "free"
                    /\ tasks' = [tasks EXCEPT ![t].pc = "lock_tables"]
    /\ UNCHANGED <<tables, fresh, last, snapshot, tables_lock>>

\* self.tables.write().await; commit clones the table map under it
lock_tables(t) ==
    /\ tasks[t].pc = "lock_tables"
    /\ CanWrite(tables_lock)
    /\ tables_lock' = [tables_lock EXCEPT !.writer = t]
    /\ tasks' = [tasks EXCEPT ![t] =
                    [pc |-> "apply", call |-> tasks[t].call, id |-> tasks[t].id,
                     k |-> 1, original_tables |-> tables]]
    /\ UNCHANGED <<tables, wal, fresh, last, snapshot, wal_lock, trace>>

\* create_table, insert and delete under the table lock, and the return
apply_mutation(t) ==
    /\ tasks[t].pc = "apply"
    /\ tasks[t].call.kind # "commit"
    /\ LET result == Mutation(tables, tasks[t].call)
       IN /\ tables' = result.tables
          /\ trace' = [trace EXCEPT
                !.applied = IF result.ok THEN Append(@, tasks[t].id) ELSE @,
                !.acked = IF ~result.ok THEN @
                          ELSE IF tasks[t].call.kind = "delete"
                          THEN StillHeld(@, result.tables)
                          ELSE @ \cup InsertedBy(tasks[t].call),
                !.stable = result.tables,
                !.returned = Returned(tasks[t].call, result.ok, result.err)]
          /\ tasks' = [tasks EXCEPT ![t] = Idle]
    /\ tables_lock' = Unlock(tables_lock, t)
    /\ UNCHANGED <<wal, fresh, last, snapshot, wal_lock>>

\* one turn of the apply loop of commit: operation k on the live map; on an
\* error the clone is put back and commit returns; after the last operation
\* commit returns Ok; both guards are dropped at the return
commit_apply(t) ==
    /\ tasks[t].pc = "apply"
    /\ tasks[t].call.kind = "commit"
    /\ LET operations == tasks[t].call.operations
           result == ApplyOp(tables, operations[tasks[t].k])
           returns == ~result.ok \/ tasks[t].k = Len(operations)
       IN /\ tables' = IF result.ok THEN result.tables
                       ELSE tasks[t].original_tables
          /\ trace' = [trace EXCEPT
                !.applied = IF result.ok THEN Append(@, tasks[t].id)
                            ELSE SelectSeq(@, LAMBDA id : id # tasks[t].id),
                !.acked = IF result.ok /\ returns
                          THEN @ \cup InsertedBy(tasks[t].call) ELSE @,
                !.stable = IF returns THEN tables' ELSE @,
                !.returned = IF returns
                             THEN Returned(tasks[t].call, result.ok, result.err)
                             ELSE @]
          /\ tables_lock' = IF returns THEN Unlock(tables_lock, t)
                            ELSE tables_lock
          /\ wal_lock' = IF returns THEN "free" ELSE wal_lock
          /\ tasks' = IF returns THEN [tasks EXCEPT ![t] = Idle]
                      ELSE [tasks EXCEPT ![t].k = @ + 1]
    /\ UNCHANGED <<wal, fresh, last, snapshot>>

\* self.tables.read().await: save and select begin by taking the read lock
begin_read(t, call) ==
    /\ tasks[t].pc = "idle"
    /\ trace.calls < MaxCalls
    /\ CanRead(tables_lock)
    /\ tables_lock' = [tables_lock EXCEPT !.readers = @ \cup {t}]
    /\ tasks' = [tasks EXCEPT ![t] =
                    [pc |-> IF call.kind = "save" THEN "write_snapshot" ELSE "read",
                     call |-> call, id |-> trace.calls + 1]]
    /\ trace' = [trace EXCEPT !.calls = @ + 1]
    /\ UNCHANGED <<tables, wal, fresh, last, snapshot, wal_lock>>

\* save: encode, compress, encrypt and write the snapshot file
save_write(t) ==
    /\ tasks[t].pc = "write_snapshot"
    /\ snapshot' = SaveFile(Key, tables)
    /\ tasks' = [tasks EXCEPT ![t].pc = "truncate"]
    /\ UNCHANGED <<tables, wal, fresh, last, wal_lock, tables_lock, trace>>

\* save: File::create(&self.wal_path), and the return
save_truncate(t) ==
    /\ tasks[t].pc = "truncate"
    /\ wal' = <<>>
    /\ tables_lock' = Unlock(tables_lock, t)
    /\ tasks' = [tasks EXCEPT ![t] = Idle]
    /\ trace' = [trace EXCEPT !.returned = Returned(tasks[t].call, TRUE, "")]
    /\ UNCHANGED <<tables, fresh, last, snapshot, wal_lock>>

\* load: File::open(path), read, decrypt, decompress and decode, before any
\* lock is taken; a failure of one of them returns the error; without a
\* file load goes on to the WAL
begin_load(t, call) ==
    /\ tasks[t].pc = "idle"
    /\ trace.calls < MaxCalls
    /\ \E failed \in {b \in BOOLEAN : b => snapshot.some /\ trace.errors < MaxErrors} :
          LET file == load_snapshot(EmptyTables, snapshot, Key)
          IN /\ tasks' = [tasks EXCEPT ![t] =
                   IF failed \/ ~file.ok THEN Idle
                   ELSE [pc |-> IF snapshot.some THEN "install" ELSE "replay",
                         call |-> call, id |-> trace.calls + 1,
                         decoded |-> file.tables]]
             /\ trace' = [trace EXCEPT
                   !.calls = @ + 1,
                   !.errors = IF failed THEN @ + 1 ELSE @,
                   !.returned = IF failed \/ ~file.ok
                                THEN Returned(call, FALSE, "InvalidData")
                                ELSE @]
    /\ UNCHANGED <<tables, wal, fresh, last, snapshot, wal_lock, tables_lock>>

\* an installing step whose table guard lives on into the replay
load_install_guarded(t) ==
    /\ tasks[t].pc = "install"
    /\ CanWrite(tables_lock)
    /\ tables' = tasks[t].decoded
    /\ tables_lock' = [tables_lock EXCEPT !.writer = t]
    /\ tasks' = [tasks EXCEPT ![t].pc = "replay"]
    /\ trace' = [trace EXCEPT !.stable = tables']
    /\ UNCHANGED <<wal, fresh, last, snapshot, wal_lock>>

\* load: self.tables.write().await, *self_tables = tables, the indexes and
\* Merkle trees, and the drop of the guard at the end of the block
load_install(t) ==
    /\ tasks[t].pc = "install"
    /\ CanWrite(tables_lock)
    /\ tables' = tasks[t].decoded
    /\ tables_lock' = Unlock([tables_lock EXCEPT !.writer = t], t)
    /\ tasks' = [tasks EXCEPT ![t].pc = "replay"]
    /\ trace' = [trace EXCEPT !.stable = tables']
    /\ UNCHANGED <<wal, fresh, last, snapshot, wal_lock>>

\* load: replay_wal reads the WAL file and calls create_table, insert and
\* delete for its entries, each of which logs its record again and takes and
\* drops both locks; the entries are replayed here without another caller
\* running in between; then load returns
load_replay(t) ==
    /\ tasks[t].pc = "replay"
    /\ wal_lock = "free"
    /\ CanWrite(tables_lock)
    /\ tables' = replay_wal(tables, wal)
    /\ wal' = wal \o Relogged(wal)
    /\ tables_lock' = Unlock([tables_lock EXCEPT !.writer = t], t)
    /\ tasks' = [tasks EXCEPT ![t] = Idle]
    /\ trace' = [trace EXCEPT
          !.stable = tables',
          !.returned = Returned(tasks[t].call, TRUE, "")]
    /\ UNCHANGED <<fresh, last, snapshot, wal_lock>>

\* select under the read lock, and the return; the history keeps the rows,
\* and the history what the last completed mutation would have given
select_read(t) ==
    /\ tasks[t].pc = "read"
    /\ tables_lock' = Unlock(tables_lock, t)
    /\ tasks' = [tasks EXCEPT ![t] = Idle]
    /\ trace' = [trace EXCEPT !.returned =
          [call |-> tasks[t].call,
           seen |-> select_result(tables, tasks[t].call.table_name,
                                  tasks[t].call.query),
           between |-> select_result(trace.stable, tasks[t].call.table_name,
                                     tasks[t].call.query)]]
    /\ UNCHANGED <<tables, wal, fresh, last, snapshot, wal_lock>>

(***************************************************************************)
(* The callers that run concurrently.                                      *)
(***************************************************************************)
Mutations ==
    {CallCreateTable("users", UsersColumns),
     CallInsert("users", UserRow(IntV(0), FloatV(0))),
     CallDelete("users", Condition("id", "Eq", IntV(0))),
     CallCommit(<<OpInsert("users", UserRow(IntV(2), FloatV(0))),
                  OpInsert("users", UserRow(IntV(0), FloatV(0)))>>)}

Reads == {CallSave, CallSelect("users", MatchAll)}

Loads == {CallLoad}

\* the calls of each caller: one makes the mutations, the other one creates,
\* inserts, saves, selects and loads
Calls(t) ==
    IF t = "t1" THEN Mutations
    ELSE {call \in Mutations : call.kind \in {"create_table", "insert"}}
            \cup Reads \cup Loads

NextTasks ==
    \E t \in Tasks :
        \/ \E call \in Mutations \cap Calls(t) : begin_mutation(t, call)
        \/ log_records(t)
        \/ lock_tables(t)
        \/ apply_mutation(t)
        \/ commit_apply(t)
        \/ \E call \in Reads \cap Calls(t) : begin_read(t, call)
        \/ save_write(t)
        \/ save_truncate(t)
        \/ select_read(t)
        \/ \E call \in Loads \cap Calls(t) : begin_load(t, call)
        \/ load_install(t)
        \/ load_replay(t)

SpecTasks == Init /\ [][NextTasks]_vars

\* what a call that has begun does next: the steps after its first
\* acquisition
Step(t) ==
    \/ log_records(t)
    \/ lock_tables(t)
    \/ apply_mutation(t)
    \/ commit_apply(t)
    \/ save_write(t)
    \/ save_truncate(t)
    \/ select_read(t)
    \/ load_install(t)
    \/ load_replay(t)

\* the scheduling of the callers: tokio's RwLock queues its waiters, so a
\* call that can take its lock again and again does take it, and a call
\* that holds what it needs goes on
LiveCalls(t) ==
    IF t = "t1"
    THEN {CallCommit(<<OpInsert("users", UserRow(IntV(2), FloatV(0))),
                       OpInsert("users", UserRow(IntV(0), FloatV(0)))>>),
          CallCreateTable("users", UsersColumns)}
    ELSE {CallInsert("users", UserRow(IntV(0), FloatV(0)))}
            \cup Reads \cup Loads

MaxLive == 3

NextLive ==
    \E t \in Tasks :
        \/ /\ trace.calls < MaxLive
           /\ \E call \in Mutations \cap LiveCalls(t) : begin_mutation(t, call)
        \/ /\ trace.calls < MaxLive
           /\ \E call \in Reads \cap LiveCalls(t) : begin_read(t, call)
        \/ /\ trace.calls < MaxLive
           /\ \E call \in Loads \cap LiveCalls(t) : begin_load(t, call)
        \/ Step(t)

FairTasks == Init /\ [][NextLive]_vars /\ \A t \in Tasks : SF_vars(Step(t))

(***************************************************************************)
(* The same callers with the logging of a call taken record by record:     *)
(* every wal_writer.log is a step of its own, so that whatever keeps the   *)
(* records of a commit together is the WAL lock and not the step.          *)
(***************************************************************************)
\* the records the call of task t has logged so far
LoggedBy(t) ==
    Cardinality({k \in 1..Len(trace.logged) : trace.logged[k].id = tasks[t].id})

\* one wal_writer.log: the next record of the call is written, or the write
\* fails and the call returns the error; after its last record create_table,
\* insert and delete drop the WAL guard, commit keeps it
log_record(t) ==
    /\ tasks[t].pc = "log"
    /\ LET records == RecordsOf(tasks[t].call)
           done == LoggedBy(t) + 1 = Len(records)
       IN \E written \in BOOLEAN :
            /\ ~written => trace.errors < MaxErrors
            /\ wal' = IF written THEN Append(wal, records[LoggedBy(t) + 1])
                      ELSE wal
            /\ trace' = [trace EXCEPT
                  !.logged = IF written
                             THEN Append(@, [id |-> tasks[t].id,
                                             of |-> Len(records)])
                             ELSE @,
                  !.errors = IF written THEN @ ELSE @ + 1,
                  !.returned = IF written THEN @
                               ELSE Returned(tasks[t].call, FALSE, "io")]
            /\ wal_lock' = IF ~written THEN "free"
                           ELSE IF done /\ tasks[t].call.kind # "commit"
                           THEN "free"
                           ELSE wal_lock
            /\ tasks' = IF ~written THEN [tasks EXCEPT ![t] = Idle]
                        ELSE IF done THEN [tasks EXCEPT ![t].pc = "lock_tables"]
                        ELSE tasks
    /\ UNCHANGED <<tables, fresh, last, snapshot, tables_lock>>

LogCalls(t) ==
    IF t = "t1"
    THEN {CallCreateTable("users", UsersColumns),
          CallCommit(<<OpInsert("users", UserRow(IntV(2), FloatV(0))),
                       OpInsert("users", UserRow(IntV(0), FloatV(0)))>>)}
    ELSE {CallInsert("users", UserRow(IntV(0), FloatV(0))),
          CallDelete("users", Condition("id", "Eq", IntV(0))),
          CallCommit(<<OpInsert("users", UserRow(IntV(1), FloatV(3))),
                       OpDelete("users", Condition("id", "Eq", IntV(2)))>>)}

NextLog ==
    \E t \in Tasks :
        \/ \E call \in LogCalls(t) : begin_mutation(t, call)
        \/ log_record(t)
        \/ lock_tables(t)
        \/ apply_mutation(t)
        \/ commit_apply(t)

SpecLog == Init /\ [][NextLog]_vars

(***************************************************************************)
(* A second set of callers: one table whose column is Unique and nullable. *)
(***************************************************************************)
CodesColumns == <<Column("id", "Integer", <<Unique>>)>>

CodeRows == {("id" :> NullV), ("id" :> IntV(0)), EmptyRow}

CodeUpdates ==
    {[query |-> Condition("id", "Eq", IntV(0)), update_fn |-> SetCol("id", NullV)],
     [query |-> MatchAll, update_fn |-> SetCol("id", IntV(1))]}

NextNullable ==
    \/ create_table("codes", CodesColumns)
    \/ \E row \in CodeRows : insert("codes", row)
    \/ \E u \in CodeUpdates : update("codes", u.query, u.update_fn)
    \/ delete("codes", Condition("id", "Eq", IntV(1)))

SpecNullable == Init /\ [][NextNullable]_vars

(***************************************************************************)
(* A third set of callers: readers of an indexed table.                    *)
(***************************************************************************)
ReaderRows ==
    {UserRow(IntV(0), FloatV(0)), UserRow(IntV(1), FloatV(3)), ("id" :> IntV(2))}

ReaderIndexes == {"id", "score"}

ReaderQueries ==
    {MatchAll,
     Condition("score", "Eq", FloatV(1)),
     Condition("score", "Gte", FloatV(1)),
     Condition("id", "NotEq", FloatV(0)),
     Condition("id", "Lt", IntV(2)),
     And(<<Condition("score", "Lte", FloatV(3)), Condition("id", "Gt", IntV(0))>>),
     Or(<<Condition("id", "Eq", IntV(2)), Condition("score", "Lt", FloatV(3))>>)}

NextReader ==
    \/ create_table("users", UsersColumns)
    \/ \E c \in ReaderIndexes : create_index("users", c)
    \/ \E row \in ReaderRows : insert("users", row)
    \/ \E q \in ReaderQueries : select("users", q)

SpecReader == Init /\ [][NextReader]_vars

(***************************************************************************)
(* A fourth set of callers: a database that is saved and loaded again.     *)
(***************************************************************************)
SavedRows == {UserRow(IntV(0), FloatV(0)), UserRow(IntV(1), NullV)}

NextSnapshot ==
    \/ create_table("users", UsersColumns)
    \/ create_index("users", "score")
    \/ \E row \in SavedRows : insert("users", row)
    \/ delete("users", Condition("id", "Eq", IntV(0)))
    \/ save
    \/ load_fresh

SpecSnapshot == Init /\ [][NextSnapshot]_vars

(***************************************************************************)
(* A fifth set of callers: load on the Database that is in use, a save     *)
(* that fails, and a WAL write that stops inside a record.                 *)
(***************************************************************************)
\* the path save writes, and a path at which there is no file
Paths == {"snapshot", "missing"}

\* the paths of a file that another key encrypted and of a file that ends
\* inside its nonce
UnreadablePaths == {"foreign", "short"}

FileAt(path) ==
    CASE path = "snapshot" -> snapshot
      [] path = "foreign" -> SaveFile(Key + 1, EmptyTables)
      [] path = "short" -> ShortFile
      [] OTHER -> NoFile

\* a snapshot file whose write stopped: it does not decrypt under the key
TornFile == [some |-> TRUE, key |-> Key + 1, nonce |-> TRUE, bytes |-> {}]

\* load(path) on self: the snapshot, when File::open finds one, replaces the
\* table map; then the WAL is replayed over the table map; the entries
\* replayed are logged again by the methods that apply them
load(path) ==
    /\ Len(wal) <= MaxWal
    /\ LET snap == load_snapshot(tables, FileAt(path), Key)
           result == IF snap.ok THEN replay_wal_result(snap.tables, wal)
                     ELSE snap
       IN /\ Allowed(result)
          /\ tables' = result.tables
          /\ wal' = IF snap.ok THEN wal \o Relogged(wal) ELSE wal
          /\ last' = [op |-> "load", ok |-> result.ok, err |-> result.err,
                      pre |-> tables, walLen |-> Len(wal),
                      operations |-> <<>>, plain |-> FALSE,
                      errors |-> IF result.ok THEN last.errors
                                 ELSE last.errors + 1,
                      path |-> path]
    /\ UNCHANGED <<fresh, snapshot, conc>>

\* the steps of save at which an error returns: the encoding, compression
\* or encryption, File::create(path), a write_all, File::create(wal_path)
SaveFailures == {"encode", "create", "write", "truncate"}

\* a save that empties the WAL before it writes the snapshot file
save_failed_truncated(failure) ==
    /\ last.errors < MaxErrors
    /\ snapshot' = CASE failure \in {"encode", "create"} -> snapshot
                     [] failure = "write" -> TornFile
                     [] failure = "truncate" -> SaveFile(Key, tables)
    /\ wal' = IF failure \in {"write", "truncate"} THEN <<>> ELSE wal
    /\ last' = [op |-> "save", ok |-> FALSE, err |-> "io", pre |-> tables,
                walLen |-> Len(wal), operations |-> <<>>,
                plain |-> last.plain, errors |-> last.errors + 1,
                failure |-> failure, wal |-> wal]
    /\ UNCHANGED <<tables, fresh, conc>>

\* save that returns an error at one of its steps: the ? of that step
\* returns before the statements after it run
save_failed(failure) ==
    /\ last.errors < MaxErrors
    /\ snapshot' = CASE failure \in {"encode", "create"} -> snapshot
                     [] failure = "write" -> TornFile
                     [] failure = "truncate" -> SaveFile(Key, tables)
    /\ last' = [op |-> "save", ok |-> FALSE, err |-> "io", pre |-> tables,
                walLen |-> Len(wal), operations |-> <<>>,
                plain |-> last.plain, errors |-> last.errors + 1,
                failure |-> failure, wal |-> wal]
    /\ UNCHANGED <<tables, wal, fresh, conc>>

\* the undecodable records of the WAL
Torn(entries) == {k \in 1..Len(entries) : entries[k].kind = "Corrupt"}

\* WalWriter::log whose write_all stops inside the record: the caller
\* returns the error before it takes the table lock
log_torn ==
    /\ Len(wal) < MaxWal
    /\ Cardinality(Torn(wal)) < MaxErrors
    /\ wal' = Append(wal, WalCorrupt)
    /\ last' = [op |-> "log_torn", ok |-> FALSE, err |-> "io", pre |-> tables,
                walLen |-> Len(wal), operations |-> <<>>, plain |-> FALSE,
                errors |-> last.errors]
    /\ UNCHANGED <<tables, fresh, snapshot, conc>>

LoadRows == {UserRow(IntV(0), FloatV(0))}

NextLoad ==
    \/ create_table("users", UsersColumns)
    \/ \E row \in LoadRows : insert("users", row)
    \/ delete("users", Condition("id", "Eq", IntV(0)))
    \/ save
    \/ \E failure \in SaveFailures : save_failed(failure)
    \/ log_torn
    \/ \E path \in Paths : load(path)

SpecLoad == Init /\ [][NextLoad]_vars

(***************************************************************************)
(* A sixth set of callers: two tables are created and filled, and then     *)
(* joined.  The initial states are the databases the create_table and      *)
(* insert calls leave, with their records in the WAL.                      *)
(***************************************************************************)
SeqsUpTo(S, n) == UNION {[1..k -> S] : k \in 0..n}

\* insert called for every row of a sequence; a rejected row is left out
RECURSIVE InsertAll(_, _, _)
InsertAll(tbls, table_name, rows) ==
    IF rows = <<>> THEN tbls
    ELSE InsertAll(insert_internal(tbls, table_name, Head(rows)).tables,
                   table_name, Tail(rows))

InsertRecords(table_name, rows) ==
    [k \in 1..Len(rows) |-> WalInsert(table_name, rows[k])]

JoinPostsColumns ==
    <<Column("id", "Integer", <<>>), Column("uid", "Integer", <<>>)>>

PostRow(id, uid) == ("id" :> id) @@ ("uid" :> uid)

JoinUsers ==
    {UserRow(IntV(0), FloatV(0)), UserRow(IntV(1), FloatV(3)), ("id" :> IntV(2))}

JoinPosts ==
    {PostRow(IntV(5), IntV(0)), PostRow(IntV(6), IntV(0)),
     PostRow(IntV(7), IntV(9)), ("id" :> IntV(8))}

JoinTypes == {"Inner", "Left", "Right"}

JoinInputs ==
    {[table_name |-> "users", query |-> Join(t, "posts", "id", "uid")] :
        t \in JoinTypes}
    \cup {[table_name |-> "users", query |-> Join(t, "posts", "score", "uid")] :
        t \in JoinTypes}
    \cup {[table_name |-> "posts", query |-> Join(t, "users", "uid", "id")] :
        t \in JoinTypes}

InitJoin ==
    /\ \E users \in SeqsUpTo(JoinUsers, MaxRows),
          posts \in SeqsUpTo(JoinPosts, MaxRows) :
          /\ tables = InsertAll(
                InsertAll(
                   create_table_internal(
                      create_table_internal(EmptyTables, "users",
                                            UsersColumns).tables,
                      "posts", JoinPostsColumns).tables,
                   "users", users),
                "posts", posts)
          /\ wal = <<WalCreateTable("users", UsersColumns),
                     WalCreateTable("posts", JoinPostsColumns)>>
                   \o InsertRecords("users", users)
                   \o InsertRecords("posts", posts)
    /\ fresh = NoDb
    /\ last = [op |-> "new", ok |-> TRUE, err |-> "", pre |-> EmptyTables,
               walLen |-> 0, operations |-> <<>>, plain |-> TRUE,
               errors |-> 0]
    /\ snapshot = NoFile
    /\ tasks = [t \in Tasks |-> Idle]
    /\ wal_lock = "free"
    /\ tables_lock = NoLock
    /\ trace = NoTrace

NextJoin == \E i \in JoinInputs : select(i.table_name, i.query)

SpecJoin == InitJoin /\ [][NextJoin]_vars

(***************************************************************************)
(* A seventh set of callers: a table is created and filled, its score      *)
(* column indexed or not, and then aggregated.                             *)
(***************************************************************************)
\* Database::aggregate reads under the table lock and changes nothing; the
\* history keeps what it returned
aggregate(table_name, aggregate_query) ==
    /\ LET result == aggregate_result(tables, table_name, aggregate_query)
       IN /\ Allowed(result)
          /\ last' = [op |-> "aggregate", ok |-> result.ok, err |-> result.err,
                      pre |-> tables, walLen |-> Len(wal), operations |-> <<>>,
                      plain |-> last.plain,
                      errors |-> IF result.ok THEN last.errors
                                 ELSE last.errors + 1,
                      table_name |-> table_name, query |-> aggregate_query,
                      value |-> result.value]
    /\ UNCHANGED <<tables, wal, fresh, snapshot, conc>>

AggregateRows ==
    {UserRow(IntV(0), FloatV(0)), UserRow(IntV(1), FloatV(3)),
     UserRow(IntV(2), NaN), ("id" :> IntV(3))}

AggregateFunctions == {"Count", "Sum", "Avg", "Min", "Max"}

AggregateFilters ==
    {NoFilter,
     Filter(Condition("score", "Eq", FloatV(1))),
     Filter(Condition("score", "Gte", FloatV(0))),
     Filter(Condition("id", "Lt", IntV(2)))}

AggregateInputs ==
    {Aggregate(function, "score", filter) :
        function \in AggregateFunctions, filter \in AggregateFilters}
    \cup {Aggregate("Count", "id", NoFilter), Aggregate("Sum", "id", NoFilter)}

InitAggregate ==
    /\ \E rows \in SeqsUpTo(AggregateRows, MaxRows + 1), indexed \in BOOLEAN :
          LET filled == InsertAll(
                           create_table_internal(EmptyTables, "users",
                                                 UsersColumns).tables,
                           "users", rows)
          IN /\ tables = IF indexed
                         THEN create_index_internal(filled, "users",
                                                    "score").tables
                         ELSE filled
             /\ wal = <<WalCreateTable("users", UsersColumns)>>
                      \o InsertRecords("users", rows)
    /\ fresh = NoDb
    /\ last = [op |-> "new", ok |-> TRUE, err |-> "", pre |-> EmptyTables,
               walLen |-> 0, operations |-> <<>>, plain |-> TRUE,
               errors |-> 0]
    /\ snapshot = NoFile
    /\ tasks = [t \in Tasks |-> Idle]
    /\ wal_lock = "free"
    /\ tables_lock = NoLock
    /\ trace = NoTrace

NextAggregate == \E q \in AggregateInputs : aggregate("users", q)

SpecAggregate == InitAggregate /\ [][NextAggregate]_vars

(***************************************************************************)
(* An eighth set of callers: two tables of the same columns are filled     *)
(* with rows that the callers build as HashMaps of their own, each with    *)
(* its own iteration order.                                                *)
(***************************************************************************)
\* Database::insert of a row whose HashMap iterates in the given order: the
\* tree is rebuilt over the rows as their maps yield them, the earlier rows
\* as before
insert_in_order(table_name, row, order) ==
    /\ Len(wal) < MaxWal
    /\ RoomFor(table_name, 1)
    /\ LET result == insert_internal(tables, table_name, row)
           leaves == Append(tables[table_name].merkle_tree.leaves,
                            SerializeIn(row, order))
       IN /\ Allowed(result)
          /\ wal' = Append(wal, WalInsert(table_name, row))
          /\ tables' = IF result.ok
                       THEN [result.tables EXCEPT
                               ![table_name].merkle_tree.leaves = leaves]
                       ELSE result.tables
          /\ last' = Record("insert", result, <<OpInsert(table_name, row)>>,
                            last.plain)
    /\ UNCHANGED <<fresh, snapshot, conc>>

SerializeTables == {"users", "replica"}

SerializeRows ==
    {UserRow(IntV(0), FloatV(0)), UserRow(IntV(1), FloatV(3)),
     UserRow(IntV(2), FloatV(3)), ("id" :> IntV(2))}

InitSerialize ==
    /\ tables = create_table_internal(
                    create_table_internal(EmptyTables, "users",
                                          UsersColumns).tables,
                    "replica", UsersColumns).tables
    /\ wal = <<WalCreateTable("users", UsersColumns),
               WalCreateTable("replica", UsersColumns)>>
    /\ fresh = NoDb
    /\ last = [op |-> "new", ok |-> TRUE, err |-> "", pre |-> EmptyTables,
               walLen |-> 0, operations |-> <<>>, plain |-> TRUE,
               errors |-> 0]
    /\ snapshot = NoFile
    /\ tasks = [t \in Tasks |-> Idle]
    /\ wal_lock = "free"
    /\ tables_lock = NoLock
    /\ trace = NoTrace

NextSerialize ==
    \E table_name \in SerializeTables, row \in SerializeRows :
        \E order \in IterationOrders(row) :
            insert_in_order(table_name, row, order)

SpecSerialize == InitSerialize /\ [][NextSerialize]_vars

(***************************************************************************)
(* A ninth set of callers: selects whose queries nest And and Or, on a     *)
(* table of which some columns are indexed.                                *)
(***************************************************************************)
PlannerConditions ==
    <<Condition("id", "Gte", IntV(0)), Condition("score", "Lte", FloatV(3))>>

PlannerQueries ==
    {And(PlannerConditions),
     And(<<And(PlannerConditions), PlannerConditions[2]>>),
     And(<<Or(PlannerConditions), PlannerConditions[2]>>),
     Or(<<And(PlannerConditions), Condition("id", "Eq", IntV(1))>>),
     Or(<<Condition("id", "Eq", IntV(1)), Condition("score", "Eq", FloatV(0)),
          Condition("id", "Lt", IntV(2))>>)}

NextPlanner ==
    \/ create_table("users", UsersColumns)
    \/ \E c \in ReaderIndexes : create_index("users", c)
    \/ \E row \in ReaderRows : insert("users", row)
    \/ \E q \in PlannerQueries : select("users", q)

SpecPlanner == Init /\ [][NextPlanner]_vars

(***************************************************************************)
(* A tenth set of callers: deletes by several queries on two tables, the   *)
(* score column of users indexed or not.                                   *)
(***************************************************************************)
DeleteQueries ==
    {MatchAll,
     Condition("id", "Eq", IntV(0)),
     Condition("score", "Eq", FloatV(1)),
     Condition("score", "Gte", FloatV(1)),
     And(<<Condition("id", "Gte", IntV(1)), Condition("score", "Lte", FloatV(3))>>)}

NextDelete ==
    \/ \E d \in TableInputs : create_table(d.name, d.columns)
    \/ create_index("users", "score")
    \/ \E row \in ReaderRows : insert("users", row)
    \/ insert("posts", ("uid" :> IntV(0)))
    \/ \E query \in DeleteQueries : delete("users", query)

SpecDelete == Init /\ [][NextDelete]_vars

(***************************************************************************)
(* An eleventh set of callers: writes to a table and to the table that     *)
(* refers to it, with a save in between that empties the WAL.              *)
(***************************************************************************)
NextForeign ==
    \/ \E d \in TableInputs : create_table(d.name, d.columns)
    \/ insert("users", UserRow(IntV(0), FloatV(0)))
    \/ insert("posts", ("uid" :> IntV(0)))
    \/ update("users", MatchAll, SetCol("id", IntV(2)))
    \/ delete("users", Condition("id", "Eq", IntV(0)))
    \/ commit(<<OpInsert("users", UserRow(IntV(0), FloatV(0))),
                OpInsert("posts", ("uid" :> IntV(0)))>>)
    \/ save

SpecForeign == Init /\ [][NextForeign]_vars

(***************************************************************************)
(* A twelfth set of callers: load of files that cannot be read.            *)
(***************************************************************************)
NextUnreadable ==
    \/ create_table("users", UsersColumns)
    \/ \E row \in SavedRows : insert("users", row)
    \/ save
    \/ save_failed("write")
    \/ \E path \in UnreadablePaths \cup {"snapshot"} : load(path)

SpecUnreadable == Init /\ [][NextUnreadable]_vars

(***************************************************************************)
(* Properties.                                                             *)
(***************************************************************************)
Columns(table) == Range(table.columns)

\* the WAL as it was before the last call
PreWal == SubSeq(wal, 1, last.walLen)

\* a row written, with the table map at the moment of the write
Write(tbls, t, row) == [pre |-> tbls, table_name |-> t, row |-> row]

\* the rows a successful operation writes on tbls
WritesOf(tbls, op) ==
    CASE op.kind = "Insert" -> <<Write(tbls, op.table_name, op.row)>>
      [] op.kind = "Update" ->
            LET table == tbls[op.table_name]
                indices == execute_query(table, op.query)
            IN [k \in 1..Len(indices) |->
                   Write(tbls, op.table_name,
                         ApplyFn(op.update_fn, table.data[indices[k]]))]
      [] op.kind = "Delete" -> <<>>

RECURSIVE WritesOfAll(_, _)
WritesOfAll(tbls, operations) ==
    IF operations = <<>> THEN <<>>
    ELSE LET result == ApplyOp(tbls, Head(operations))
         IN IF ~result.ok THEN <<>>
            ELSE WritesOf(tbls, Head(operations))
                 \o WritesOfAll(result.tables, Tail(operations))

\* the rows the last call wrote before it returned
LastWrites == WritesOfAll(last.pre, last.operations)

ConstraintsOf(col, kind) == {c \in Range(col.constraints) : c.kind = kind}

\* C1: when an operation of a transaction fails during commit, commit
\* returns an error and the table map afterwards equals the table map
\* immediately before the commit, whatever the operations buffered before
\* the failing one had already changed.
C1_FailedCommitRestoresTables ==
    (last.op = "commit" /\ ~last.ok) => tables = last.pre

\* a commit failed after an earlier operation of it had written a row
W1_FailedCommitAfterWrite ==
    last.op = "commit" /\ ~last.ok /\ Len(LastWrites) > 0 /\ tables = last.pre

\* C2: the operations of a commit that returned an error are visible
\* neither in memory nor to a fresh Database that replays the WAL: the
\* recovery gives what it gave from the WAL as it was before the commit.
C2_FailedCommitInvisibleAfterRecovery ==
    (last.op = "commit" /\ ~last.ok) =>
        /\ tables = last.pre
        /\ replay_wal(EmptyTables, wal) = replay_wal(EmptyTables, PreWal)

\* the names, the column definitions and the row sequences of a table map
Content(tbls) ==
    [n \in DOMAIN tbls |-> [columns |-> tbls[n].columns, data |-> tbls[n].data]]

\* C3: after only create_table, insert and delete calls, successful or
\* rejected, a fresh Database on the same WAL that loads a missing snapshot
\* path holds the same tables and the same row sequences as the original.
C3_WalRecoveryEqualsMemory ==
    (last.op = "load_fresh" /\ last.plain) =>
        Content(fresh.tables) = Content(tables)

\* a recovery after inserts that left rows and a delete that removed one
W3_RecoveredAfterInsertAndDelete ==
    /\ last.op = "load_fresh" /\ last.plain
    /\ \E n \in DOMAIN tables : Len(tables[n].data) > 0
    /\ \E k \in 1..Len(PreWal) :
          /\ PreWal[k].kind = "Delete"
          /\ replay_wal(EmptyTables, SubSeq(PreWal, 1, k))
               # replay_wal(EmptyTables, SubSeq(PreWal, 1, k - 1))
    /\ Content(fresh.tables) = Content(tables)

\* the table map after the first k operations, each applied to what the
\* operations before it left
RECURSIVE StateAfter(_, _, _)
StateAfter(tbls, operations, k) ==
    IF k = 0 THEN tbls
    ELSE ApplyOp(StateAfter(tbls, operations, k - 1), operations[k]).tables

AllSucceed(tbls, operations) ==
    \A k \in 1..Len(operations) :
        ApplyOp(StateAfter(tbls, operations, k - 1), operations[k]).ok

\* C4: a commit whose operations all succeed, each on the state the
\* operations before it left, returns Ok and leaves the table map that
\* applying the operations one at a time in buffered order gives.
C4_CommitAppliesInOrder ==
    (last.op = "commit" /\ AllSucceed(last.pre, last.operations)) =>
        /\ last.ok
        /\ tables = StateAfter(last.pre, last.operations, Len(last.operations))

\* a commit succeeded whose second insert refers by foreign key to the row
\* its first insert added
W4_ForeignKeyWithinTransaction ==
    /\ last.op = "commit" /\ last.ok
    /\ Len(last.operations) = 2
    /\ last.operations[2].kind = "Insert"
    /\ ~insert_internal(last.pre, last.operations[2].table_name,
                        last.operations[2].row).ok
    /\ Len(tables[last.operations[2].table_name].data)
         = Len(last.pre[last.operations[2].table_name].data) + 1

\* C5: verify_integrity is true after every call: the cached Merkle root of
\* every table is the root of its current rows in order.
C5_VerifyIntegrity == verify_integrity(tables)

\* a delete removed a row of a table that keeps rows and a Merkle tree
W5_DeleteRebuiltMerkle ==
    /\ last.op = "delete" /\ last.ok /\ tables # last.pre
    /\ \E n \in DOMAIN tables :
          tables[n].merkle_tree.some /\ Len(tables[n].data) > 0
                                     /\ tables[n].data # last.pre[n].data

ValueUniverse ==
    {IntV(n) : n \in 0..2} \cup {FloatV(n) : n \in 0..1} \cup {NullV}

PositionsWith(table, c, v) ==
    {i \in 1..Len(table.data) : GetEq(table.data[i], c, v)}

\* C6: for every indexed column c and every value v, the position list the
\* index of c holds under v is exactly the set of positions of the rows
\* whose c equals v, each position once, and a position is under no key
\* other than its row's value.
C6_IndexExact ==
    \A n \in DOMAIN tables : \A c \in DOMAIN tables[n].indexes :
        LET index == tables[n].indexes[c]
        IN /\ \A v \in ValueUniverse :
                /\ Range(IndexGet(index, v)) = PositionsWith(tables[n], c, v)
                /\ Len(IndexGet(index, v))
                     = Cardinality(PositionsWith(tables[n], c, v))
           /\ \A k \in DOMAIN index : \A i \in Range(index[k]) :
                 i \in PositionsWith(tables[n], c, k)

\* C7: no two rows of a table hold equal non-null values in a column
\* declared Unique.
C7_UniqueHolds ==
    \A n \in DOMAIN tables : \A col \in Columns(tables[n]) :
        ConstraintsOf(col, "Unique") # {} =>
            \A i, j \in 1..Len(tables[n].data) :
                (i < j /\ col.name \in DOMAIN tables[n].data[i]
                       /\ tables[n].data[i][col.name] # NullV)
                    => ~GetEq(tables[n].data[j], col.name,
                              tables[n].data[i][col.name])

\* the row lacks the column or holds null in it
AbsentOrNull(row, c) == c \notin DOMAIN row \/ row[c] = NullV

NotNullColumns(table) ==
    {col.name : col \in {x \in Columns(table) : ConstraintsOf(x, "NotNull") # {}}}

\* the rows a call would write on the table map tbls: the new row of an
\* insert, the updated copies of the rows an update's query matches
RowsToWrite(tbls, op) ==
    IF op.table_name \notin DOMAIN tbls THEN {}
    ELSE IF op.kind = "Insert" THEN {op.row}
    ELSE IF op.kind = "Update"
    THEN {ApplyFn(op.update_fn, tbls[op.table_name].data[i]) :
             i \in Range(execute_query(tbls[op.table_name], op.query))}
    ELSE {}

\* C8: every stored row has a non-null entry for every NotNull column, and
\* an insert or update that would leave such a column absent or null is
\* rejected.
C8_NotNullHolds ==
    /\ \A n \in DOMAIN tables : \A i \in 1..Len(tables[n].data) :
          \A c \in NotNullColumns(tables[n]) : ~AbsentOrNull(tables[n].data[i], c)
    /\ (last.op \in {"insert", "update"} /\
        \E row \in RowsToWrite(last.pre, last.operations[1]) :
            \E c \in NotNullColumns(last.pre[last.operations[1].table_name]) :
                AbsentOrNull(row, c))
         => (~last.ok /\ tables = last.pre)

\* an update that would set a NotNull column of a stored row to null was
\* rejected
W8_NullUpdateRejected ==
    /\ last.op = "update" /\ ~last.ok
    /\ \E row \in RowsToWrite(last.pre, last.operations[1]) :
          \E c \in NotNullColumns(last.pre[last.operations[1].table_name]) :
              c \in DOMAIN row /\ row[c] = NullV

\* C9: every value stored under a declared column is of the variant the
\* column declares, or null.
C9_TypesHold ==
    \A n \in DOMAIN tables : \A i \in 1..Len(tables[n].data) :
        \A col \in Columns(tables[n]) :
            col.name \in DOMAIN tables[n].data[i]
                => type_matches(col.data_type, tables[n].data[i][col.name])

\* the referenced table exists at the write and a row of it holds, in the
\* referenced column, a value equal to the written row's foreign-key value
Referenced(w, col, fk) ==
    /\ fk.table \in DOMAIN w.pre
    /\ col.name \in DOMAIN w.row
    /\ \E i \in 1..Len(w.pre[fk.table].data) :
          GetEq(w.pre[fk.table].data[i], fk.column, w.row[col.name])

\* C10 as claimed: whenever an insert or update succeeds for a row of a
\* table that has a ForeignKey(t, c) column, t exists at that moment and a
\* row of t holds a value equal to the row's foreign-key value.
C10_ForeignKeyAlwaysReferenced ==
    \A k \in 1..Len(LastWrites) :
        LET w == LastWrites[k]
        IN \A col \in Columns(w.pre[w.table_name]) :
               \A fk \in ConstraintsOf(col, "ForeignKey") : Referenced(w, col, fk)

\* C10 amended: whenever an insert or update succeeds for a row that has an
\* entry for a ForeignKey(t, c) column, t exists at that moment and a row
\* of t holds an equal value in c; a write of a row that has such an entry
\* while t is missing or holds no equal value is rejected.  A row without
\* an entry for the column is not checked.
C10_ForeignKeyReferencedWhenPresent ==
    /\ \A k \in 1..Len(LastWrites) :
          LET w == LastWrites[k]
          IN \A col \in Columns(w.pre[w.table_name]) :
                 \A fk \in ConstraintsOf(col, "ForeignKey") :
                     col.name \in DOMAIN w.row => Referenced(w, col, fk)
    /\ (last.op \in {"insert", "update"} /\
        \E row \in RowsToWrite(last.pre, last.operations[1]) :
            \E col \in Columns(last.pre[last.operations[1].table_name]) :
                \E fk \in ConstraintsOf(col, "ForeignKey") :
                    /\ col.name \in DOMAIN row
                    /\ ~Referenced(Write(last.pre, last.operations[1].table_name,
                                         row), col, fk))
         => (~last.ok /\ tables = last.pre)

\* an insert succeeded for a row with a foreign-key value
W10_ForeignKeyInsertAccepted ==
    /\ last.op = "insert" /\ last.ok
    /\ \E col \in Columns(last.pre[LastWrites[1].table_name]) :
          /\ ConstraintsOf(col, "ForeignKey") # {}
          /\ col.name \in DOMAIN LastWrites[1].row

\* the positions of the rows an update's query matches whose updated copy
\* fails a constraint check
FailingRows(tbls, op) ==
    IF op.table_name \notin DOMAIN tbls THEN {}
    ELSE LET table == tbls[op.table_name]
         IN {i \in Range(execute_query(table, op.query)) :
                UpdateRowErr(tbls, table, i, op.update_fn) # ""}

\* C11: a rejected insert or update leaves the rows, the indexes and the
\* Merkle tree of every table as they were before the call, and an update
\* one of whose matched rows would violate a constraint is rejected with no
\* row modified.
C11_RejectedWriteChangesNothing ==
    /\ (last.op \in {"insert", "update"} /\ ~last.ok) => tables = last.pre
    /\ (last.op = "update" /\ FailingRows(last.pre, last.operations[1]) # {})
          => (~last.ok /\ tables = last.pre)

\* an update was rejected whose query matched two rows, the first of which
\* passed its checks, on a table that has rows, an index and a Merkle tree
W11_SecondRowRejected ==
    /\ last.op = "update" /\ ~last.ok
    /\ last.operations[1].table_name \in DOMAIN last.pre
    /\ LET op == last.operations[1]
           matched == execute_query(last.pre[op.table_name], op.query)
       IN /\ Len(matched) = 2
          /\ matched[1] \notin FailingRows(last.pre, op)
          /\ matched[2] \in FailingRows(last.pre, op)
          /\ tables[op.table_name].merkle_tree.some

\* the writes of a call that meet another row holding an equal non-null
\* value in a Unique column: <<position, column>>, position 0 for the new
\* row of an insert
UniqueConflicts(tbls, op) ==
    IF op.table_name \notin DOMAIN tbls THEN {}
    ELSE LET table == tbls[op.table_name]
             unique == {col.name : col \in {x \in Columns(table) :
                                               ConstraintsOf(x, "Unique") # {}}}
             positions == IF op.kind = "Insert" THEN {0}
                          ELSE IF op.kind = "Update"
                          THEN Range(execute_query(table, op.query))
                          ELSE {}
             written(p) == IF p = 0 THEN op.row
                           ELSE ApplyFn(op.update_fn, table.data[p])
         IN {pc \in positions \X unique :
                /\ pc[2] \in DOMAIN written(pc[1])
                /\ written(pc[1])[pc[2]] # NullV
                /\ \E j \in 1..Len(table.data) :
                      j # pc[1] /\ GetEq(table.data[j], pc[2], written(pc[1])[pc[2]])}

\* C12: an insert or update is rejected as not unique only when a written
\* row holds a non-null value in a Unique column that another row also
\* holds; a null value is never the ground of the rejection.
C12_UniqueIgnoresNull ==
    (last.op \in {"insert", "update"} /\ last.err = "must be unique")
        => UniqueConflicts(last.pre, last.operations[1]) # {}

\* the predicate a query stands for, on one row
RECURSIVE Eval(_, _)
Eval(row, query) ==
    CASE query.kind = "MatchAll" -> TRUE
      [] query.kind = "Condition" -> evaluate_condition(row, query)
      [] query.kind = "And" ->
            \A k \in 1..Len(query.queries) : Eval(row, query.queries[k])
      [] query.kind = "Or" ->
            \E k \in 1..Len(query.queries) : Eval(row, query.queries[k])

Count(seq, x) == Cardinality({k \in 1..Len(seq) : seq[k] = x})

\* the rows of seq on which the query evaluates true, as a sequence
Matching(data, query) == SelectSeq(data, LAMBDA row : Eval(row, query))

\* C13: select returns exactly the rows of the table on which the predicate
\* evaluates true, each as often as the table holds it, whether or not the
\* columns the predicate refers to are indexed.
C13_SelectExact ==
    (last.op = "select" /\ last.ok) =>
        LET data == tables[last.table_name].data
        IN \A x \in Range(data) \cup Range(last.rows) :
               Count(last.rows, x) = Count(Matching(data, last.query), x)

\* C14: a Condition whose value is of another variant than the row's value
\* in the column is false on that row, for every operator, indexed or
\* scanned: a select by one Condition returns no such row.
C14_MismatchedVariantIsFalse ==
    (last.op = "select" /\ last.ok /\ last.query.kind = "Condition") =>
        \A k \in 1..Len(last.rows) :
            /\ last.query.column \in DOMAIN last.rows[k]
            /\ last.rows[k][last.query.column].t = last.query.value.t

Snapshotted == load_snapshot(EmptyTables, snapshot, Key).tables

\* C16: whatever runs concurrently with save, every insert that has
\* returned Ok is afterwards contained in the snapshot or in the WAL: its
\* row is among the rows of the snapshot, or its record is in the WAL.
C16_NoAcknowledgedMutationLost ==
    \A a \in trace.acked :
        \/ /\ a.table_name \in DOMAIN Snapshotted
           /\ a.row \in Range(Snapshotted[a.table_name].data)
        \/ WalInsert(a.table_name, a.row) \in Range(wal)

\* the records of call id that have been logged
LoggedOf(id) == {j \in 1..Len(trace.logged) : trace.logged[j].id = id}

\* C17: no effect of a create_table, insert or commit is in the table map
\* before every WAL record of the call has been written.
C17_LoggedBeforeVisible ==
    \A k \in 1..Len(trace.applied) :
        /\ LoggedOf(trace.applied[k]) # {}
        /\ \A j \in LoggedOf(trace.applied[k]) :
              Cardinality(LoggedOf(trace.applied[k])) = trace.logged[j].of

\* a commit of two operations has applied its first and not yet its second,
\* while the other caller has logged and waits for the table lock
W17_CommitHalfApplied ==
    \E t, u \in Tasks :
        /\ tasks[t].pc = "apply" /\ tasks[t].call.kind = "commit"
        /\ tasks[t].k = 2 /\ tables # tasks[t].original_tables
        /\ tasks[u].pc = "lock_tables"

First(seq, x) == CHOOSE j \in 1..Len(seq) : seq[j] = x /\ \A i \in 1..(j - 1) : seq[i] # x

\* C18: the effects of concurrent mutations reach the table map in the
\* order of their records in the WAL.
C18_AppliedInWalOrder ==
    \A i, j \in 1..Len(trace.applied) :
        (i < j /\ trace.applied[i] # trace.applied[j]) =>
            First([k \in 1..Len(trace.logged) |-> trace.logged[k].id],
                  trace.applied[i])
              < First([k \in 1..Len(trace.logged) |-> trace.logged[k].id],
                      trace.applied[j])

\* C19: a select that runs concurrently with writers returns what it would
\* return on the table map as the last completed mutation left it: nothing
\* of a commit that is half applied or that is rolled back.
C19_ReaderSeesCompleteMutations ==
    trace.returned.call.kind = "select" =>
        trace.returned.seen = trace.returned.between

\* a select has returned rows while the commit of the other caller, its
\* records logged, was on its way to the table lock
W19_ReadDuringCommit ==
    \E u \in Tasks :
        /\ trace.returned.call.kind = "select"
        /\ Len(trace.returned.seen.rows) > 0
        /\ tasks[u].pc = "lock_tables" /\ tasks[u].call.kind = "commit"

\* C20: a caller whose call has returned, with Ok or with an error, holds
\* neither the WAL lock nor the table lock.
C20_ReturnedHoldsNoLock ==
    \A t \in Tasks :
        tasks[t].pc = "idle" =>
            /\ wal_lock # t
            /\ tables_lock.writer # t
            /\ t \notin tables_lock.readers

\* a commit has returned an error after its rollback
W20_CommitReturnedError ==
    /\ trace.returned.call.kind = "commit"
    /\ ~trace.returned.ok /\ trace.returned.err = "must be unique"
    /\ \A t \in Tasks : tasks[t].pc = "idle"
    /\ wal_lock = "free" /\ tables_lock = NoLock

\* the WAL without its Update entries
WithoutUpdates(entries) == SelectSeq(entries, LAMBDA e : e.kind # "Update")

\* the WAL file as load found it: load appends to it what it replays
LoadedWal == SubSeq(wal, 1, last.walLen)

\* C21: the replay of a WAL Update entry changes nothing: the table map a
\* load builds from the WAL equals the one built from the same WAL with every
\* Update entry removed.
C21_ReplaySkipsUpdate ==
    last.op = "load_fresh" =>
        fresh.tables = replay_wal(Snapshotted, WithoutUpdates(LoadedWal))

\* a load has replayed a WAL with an Update entry whose update had changed
\* the rows in memory
W21_ReplayedWalWithUpdate ==
    /\ last.op = "load_fresh"
    /\ \E k \in 1..Len(LoadedWal) : LoadedWal[k].kind = "Update"
    /\ Content(fresh.tables) # Content(tables)
    /\ \E n \in DOMAIN fresh.tables : Len(fresh.tables[n].data) > 0

\* the first undecodable record of the WAL load found
FirstTorn == CHOOSE k \in Torn(LoadedWal) : \A j \in Torn(LoadedWal) : k <= j

\* every entry of a sequence applied in turn
RECURSIVE ApplyAll(_, _)
ApplyAll(tbls, entries) ==
    IF entries = <<>> THEN tbls
    ELSE ApplyAll(apply_wal_entry(tbls, Head(entries)), Tail(entries))

\* the table map the replay of load started from
ReplayBase == IF FileAt(last.path).some THEN Snapshotted ELSE last.pre

\* C22: when a WAL record cannot be decoded, load returns an error, every
\* entry before that record has been applied to the table map and no entry
\* after it.
C22_ReplayStopsAtCorruptRecord ==
    (last.op = "load" /\ Torn(LoadedWal) # {}
        /\ load_snapshot(last.pre, FileAt(last.path), Key).ok) =>
        /\ ~last.ok
        /\ tables = ApplyAll(ReplayBase, SubSeq(LoadedWal, 1, FirstTorn - 1))
        /\ wal = LoadedWal
                 \o WithoutUpdates(SubSeq(LoadedWal, 1, FirstTorn - 1))

\* a load has stopped at an undecodable record after it had applied an
\* insert, with a record behind the undecodable one
W22_LoadStoppedInsideWal ==
    /\ last.op = "load" /\ ~last.ok
    /\ Torn(LoadedWal) # {} /\ FirstTorn < Len(LoadedWal)
    /\ tables # last.pre

\* C23: load of a path without a snapshot file returns Ok and leaves the
\* table map a replay of the WAL over an empty database gives, whatever
\* the table map held before.
C23_MissingSnapshotStartsEmpty ==
    (last.op = "load" /\ ~FileAt(last.path).some /\ Torn(LoadedWal) = {}) =>
        /\ last.ok
        /\ Content(tables) = Content(replay_wal(EmptyTables, LoadedWal))

\* C24: a save that returns an error leaves in the WAL every record it
\* held, and a save that has emptied the WAL has written the whole snapshot.
C24_FailedSaveKeepsWal ==
    /\ (last.op = "save" /\ ~last.ok) => wal = last.wal
    /\ (last.op = "save" /\ Len(wal) < last.walLen) =>
          /\ load_snapshot(EmptyTables, snapshot, Key).ok
          /\ Content(Snapshotted) = Content(tables)

\* a save has failed inside the write of the snapshot file with records in
\* the WAL
W24_SaveFailedInsideWrite ==
    /\ last.op = "save" /\ ~last.ok /\ last.failure = "write"
    /\ snapshot = TornFile
    /\ \E k \in 1..Len(wal) : wal[k].kind = "Insert"

\* the pairs of positions of a left and a right row that the join condition
\* pairs up
JoinPairs(left, right, on) ==
    {p \in (1..Len(left)) \X (1..Len(right)) :
        OptionEq(left[p[1]], on[1], right[p[2]], on[2])}

\* the rows one per element of a set of pairs, made by f, as a bag of rows:
\* how often x is among them
Copies(pairs, f(_), x) == Cardinality({p \in pairs : f(p) = x})

\* the left and the right table of the join select has run
JoinLeft == last.pre[last.table_name]

JoinRight == last.pre[last.query.target_table]

JoinRan(join_type) ==
    /\ last.op = "select" /\ last.ok
    /\ last.query.kind = "Join" /\ last.query.join_type = join_type

\* C25: an Inner join returns one merged row for each pair of a left and a
\* right row whose join columns are equal (as Option<&Value>: two absent
\* entries are equal), duplicates included, and nothing else; in a merged
\* row the right row's value stands for every column both rows have.
C25_InnerJoinPairs ==
    JoinRan("Inner") =>
        LET left == JoinLeft.data
            right == JoinRight.data
            pairs == JoinPairs(left, right, last.query.on_condition)
            merged(p) == right[p[2]] @@ left[p[1]]
        IN /\ Len(last.rows) = Cardinality(pairs)
           /\ \A x \in Range(last.rows) \cup {merged(p) : p \in pairs} :
                 Count(last.rows, x) = Copies(pairs, merged, x)

\* an Inner join has returned two rows for one left row, with a column of
\* the same name in both rows, while another left row has no match
W25_InnerJoinDuplicates ==
    /\ JoinRan("Inner")
    /\ last.table_name = "users" /\ last.query.on_condition = <<"id", "uid">>
    /\ Len(last.rows) = 2 /\ Len(JoinLeft.data) = 2
    /\ last.rows[1].score = last.rows[2].score
    /\ last.rows[1].id # last.rows[2].id

\* C26: a Left join returns the rows of the Inner join and one more row for
\* each left row without a match, the left row with every column of the
\* right table null; a Right join the rows of the Inner join and one more
\* row for each right row without a match, with every column of the left
\* table null.
C26_OuterJoinPadsUnmatched ==
    (JoinRan("Left") \/ JoinRan("Right")) =>
        LET is_left == last.query.join_type = "Left"
            inner == execute_join_query(
                        JoinLeft, JoinRight,
                        [last.query EXCEPT !.join_type = "Inner"])
            pairs == JoinPairs(JoinLeft.data, JoinRight.data,
                               last.query.on_condition)
            outer == IF is_left THEN JoinLeft ELSE JoinRight
            other == IF is_left THEN JoinRight ELSE JoinLeft
            matched == {p[IF is_left THEN 1 ELSE 2] : p \in pairs}
            unmatched == (1..Len(outer.data)) \ matched
            padded(i) ==
                [c \in {other.columns[k].name : k \in 1..Len(other.columns)}
                    |-> NullV] @@ outer.data[i]
        IN \A x \in Range(last.rows) \cup Range(inner)
                    \cup {padded(i) : i \in unmatched} :
              Count(last.rows, x) = Count(inner, x) + Copies(unmatched, padded, x)

\* a Right join has returned a merged row and the row of a right row
\* without a match, in which the columns of the left table are null
W26_RightJoinPadded ==
    /\ JoinRan("Right")
    /\ last.table_name = "users" /\ last.query.on_condition = <<"id", "uid">>
    /\ Len(last.rows) = 2
    /\ \E k \in 1..2 : /\ last.rows[k] = ("id" :> NullV) @@ ("score" :> NullV)
                                          @@ ("uid" :> IntV(9))
                        /\ "score" \in DOMAIN last.rows[3 - k]
                        /\ last.rows[3 - k].score # NullV

\* the table and the query of the aggregate that has run
Aggregated == last.pre[last.table_name]

AggregateRan == last.op = "aggregate" /\ last.table_name \in DOMAIN last.pre

\* C27: Count over a column returns the number of rows, among those on
\* which the filter is true when there is a filter, that have an entry for
\* the column.
C27_CountEntries ==
    (AggregateRan /\ last.query.function = "Count") =>
        /\ last.ok
        /\ last.value = IntV(Cardinality(
              {i \in 1..Len(Aggregated.data) :
                  /\ last.query.column \in DOMAIN Aggregated.data[i]
                  /\ last.query.filter.some =>
                        Eval(Aggregated.data[i], last.query.filter.query)}))

\* C28: an aggregate with a filter gives what the same aggregate without a
\* filter gives on the table of exactly the rows on which the filter is
\* true, whether or not the column of the filter is indexed.
C28_FilterEqualsPostFilter ==
    (AggregateRan /\ last.query.filter.some) =>
        LET kept == [Aggregated EXCEPT
                        !.data = Matching(@, last.query.filter.query)]
            plain == execute_aggregate_query(
                        kept, [last.query EXCEPT !.filter = NoFilter])
        IN /\ last.ok = plain.ok
           /\ last.value = plain.value

\* C29: over values of one variant Min returns a value of the column below
\* which there is none and Max one above which there is none; with no
\* entry for the column in any row Min and Max return an error.
C29_MinMaxExtreme ==
    (AggregateRan /\ last.query.function \in {"Min", "Max"}
        /\ ~last.query.filter.some) =>
        LET values == {Aggregated.data[i][last.query.column] :
                         i \in {j \in 1..Len(Aggregated.data) :
                                   last.query.column \in DOMAIN Aggregated.data[j]}}
            beyond == IF last.query.function = "Min" THEN "Less" ELSE "Greater"
        IN IF values = {} THEN ~last.ok
           ELSE (\A v, w \in values : v.t = w.t) =>
                   /\ last.ok
                   /\ last.value \in values
                   /\ \A w \in values : partial_cmp(w, last.value) # beyond

\* C30: two rows equal as mappings serialize to the same bytes whatever the
\* order of their entries, so two tables that hold equal row sequences have
\* equal Merkle trees.
C30_EqualRowsEqualRoots ==
    ({"users", "replica"} \subseteq DOMAIN tables
        /\ tables["users"].data = tables["replica"].data) =>
        tables["users"].merkle_tree = tables["replica"].merkle_tree

\* the index of column c of the table holds, under every value, exactly the
\* positions of the rows whose c equals it
IndexExact(table, c) ==
    LET index == table.indexes[c]
    IN /\ \A v \in ValueUniverse :
            /\ Range(IndexGet(index, v)) = PositionsWith(table, c, v)
            /\ Len(IndexGet(index, v)) = Cardinality(PositionsWith(table, c, v))
       /\ \A k \in DOMAIN index : \A i \in Range(index[k]) :
             i \in PositionsWith(table, c, k)

\* C31: when a Database loads a snapshot, every column that was indexed in
\* the saved table map when save wrote it is indexed in the loaded table
\* map, and that index is exact for the restored rows.
C31_LoadRestoresIndexes ==
    [][(last.op = "save" /\ last'.op = "load_fresh") =>
          \A n \in DOMAIN tables : \A c \in DOMAIN tables[n].indexes :
              /\ n \in DOMAIN fresh'.tables
              /\ c \in DOMAIN fresh'.tables[n].indexes
              /\ IndexExact(fresh'.tables[n], c)]_vars

\* the cost the planner is to estimate: 1 for a Condition on an indexed
\* column, 10 for one on a column without an index, the sum of the children
\* for And and Or
RECURSIVE CostOf(_, _)
CostOf(query, table) ==
    CASE query.kind = "Condition" ->
            IF query.column \in DOMAIN table.indexes THEN 1 ELSE 10
      [] query.kind \in {"And", "Or"} ->
            IF query.queries = <<>> THEN 0
            ELSE CostOf(Head(query.queries), table)
                 + CostOf([query EXCEPT !.queries = Tail(@)], table)
      [] OTHER -> 100

\* the children of every And of the query, at any depth, are in ascending
\* order of cost
RECURSIVE AndsAscending(_, _)
AndsAscending(query, table) ==
    IF query.kind \in {"And", "Or"}
    THEN /\ \A i \in 1..Len(query.queries) :
              AndsAscending(query.queries[i], table)
         /\ query.kind = "And" =>
              \A i, j \in 1..Len(query.queries) :
                  i < j => CostOf(query.queries[i], table)
                             <= CostOf(query.queries[j], table)
    ELSE TRUE

\* the select that has run, on a table that exists
SelectRan == last.op = "select" /\ last.table_name \in DOMAIN last.pre

\* C32: in the query the planner hands to the evaluator the children of
\* every And, at any nesting depth, are in ascending order of estimated
\* cost, a Condition costing 1 on an indexed column and 10 on another.
C32_EveryAndSortedByCost ==
    SelectRan =>
        AndsAscending(optimize_query(last.query, last.pre[last.table_name]),
                      last.pre[last.table_name])

\* C33: an Or query gives the union of the positions its children give,
\* each position once, in ascending order, so that select with an Or query
\* returns the matching rows in the order of the table.
C33_OrAscending ==
    (SelectRan /\ last.query.kind = "Or") =>
        LET table == last.pre[last.table_name]
            union == UNION {Range(execute_query(table, last.query.queries[i])) :
                              i \in 1..Len(last.query.queries)}
            ascending == Ascending(union)
        IN /\ last.ok
           /\ last.rows = [k \in 1..Len(ascending) |-> table.data[ascending[k]]]

\* C34: a delete that returns Ok has removed from the table exactly the
\* rows on which the query is true and returns their number; the rows that
\* remain keep their order, at contiguous positions; every other table is
\* as it was.
C34_DeleteExact ==
    (last.op = "delete" /\ last.ok) =>
        LET op == last.operations[1]
            before == last.pre[op.table_name].data
            remaining == SelectSeq(before, LAMBDA row : ~Eval(row, op.query))
        IN /\ tables[op.table_name].data = remaining
           /\ last.count = Len(before) - Len(remaining)
           /\ DOMAIN tables = DOMAIN last.pre
           /\ \A n \in DOMAIN tables \ {op.table_name} :
                 tables[n] = last.pre[n]

\* C35: recovery leaves the records of the WAL as they were, so that a
\* second fresh Database recovering from the same WAL right after the
\* first holds the table map the first one holds.
C35_RecoveryKeepsWal ==
    last.op = "load_fresh" =>
        /\ Len(wal) = last.walLen
        /\ Content(replay_wal(Snapshotted, wal)) = Content(fresh.tables)

\* C36: a create_table, insert, update or delete that returns an error has
\* appended no record to the WAL.
C36_RejectedCallLogsNothing ==
    (last.op \in {"create_table", "insert", "update", "delete"} /\ ~last.ok) =>
        wal = SubSeq(wal, 1, last.walLen)

C38_EveryCallReturns ==
    \A t \in Tasks : (tasks[t].pc # "idle") ~> (tasks[t].pc = "idle")

\* a commit that holds the WAL lock waits for the table lock while the
\* other caller reads under it
W38_CommitWaitsForReader ==
    \E t \in Tasks, u \in Tasks :
        /\ t # u
        /\ tasks[t].pc = "lock_tables"
        /\ tasks[t].call.kind = "commit"
        /\ wal_lock = t
        /\ u \in tables_lock.readers
        /\ ~CanWrite(tables_lock)

\* the value stored under a ForeignKey column of a row has an equal value in
\* the referenced column of the referenced table
Kept(tbls, row, col, fk) ==
    /\ fk.table \in DOMAIN tbls
    /\ \E i \in 1..Len(tbls[fk.table].data) :
          GetEq(tbls[fk.table].data[i], fk.column, row[col.name])

\* C39: after any sequence of insert, update, delete and commit calls every
\* foreign-key value stored in a row has an equal value in the referenced
\* column of the referenced table: no delete or update of a referenced row
\* leaves a dangling reference.
C39_NoDanglingReference ==
    last.op \in {"insert", "update", "delete", "commit"} =>
        \A name \in DOMAIN tables :
            \A i \in 1..Len(tables[name].data) :
                \A col \in Columns(tables[name]) :
                    \A fk \in ConstraintsOf(col, "ForeignKey") :
                        col.name \in DOMAIN tables[name].data[i]
                            => Kept(tables, tables[name].data[i], col, fk)

\* the file is there and cannot be decrypted, decompressed or decoded
Unreadable(file) == file.some /\ (~file.nonce \/ file.key # Key)

\* C40: a load that cannot decrypt, decompress or decode the snapshot file
\* (wrong key, corrupted or truncated file) returns an error, leaves the
\* table map as it was before the call and does not replay the WAL.
C40_UnreadableFileReturnsError ==
    (last.op = "load" /\ Unreadable(FileAt(last.path))) =>
        /\ ~last.ok
        /\ last.err # "panic"
        /\ tables = last.pre
        /\ Len(wal) = last.walLen

====
